---- MODULE Spec2Model ----
(***************************************************************************)
(* Model of the secure filesystem server: the boundary validator           *)
(* (pkg/security), the operation engine (pkg/filesystem) and the tool      *)
(* handlers (internal/handlers).                                           *)
(*                                                                         *)
(* A Go path string is a record [abs, segs]: whether it starts with the    *)
(* separator, and its segments.  Real filesystem locations are absolute    *)
(* and are written as the bare segment sequence.  A segment is a name;     *)
(* Chars gives the characters of a name, so that string-level operations   *)
(* (strings.HasPrefix on the result of filepath.Rel) are computed on       *)
(* characters, as the code computes them.                                  *)
(*                                                                         *)
(* Environment: symlink targets are absolute paths; the home directory is  *)
(* available; permissions never deny access.                               *)
(***************************************************************************)
EXTENDS Integers, Sequences, FiniteSets, TLC

VARIABLES
    fs,                  \* the filesystem: real absolute location -> node
    allowedDirectories,  \* PathValidator.allowedDirectories (backing array)
    returned,            \* slices handed out by GetAllowedDirectories, held by callers
    response,            \* result of the call in flight to the caller
    nOps,                \* number of mutating calls made so far
    treeCall,            \* the DirectoryTree call in progress: visited map, buildTree activations
    moveCalls            \* the MoveFile calls of concurrent callers: position and result

vars == <<fs, allowedDirectories, returned, response, nOps, treeCall, moveCalls>>

----------------------------------------------------------------------------
(* Bounds *)

MaxReqLen == 2      \* segments in a requested path
MaxOps == 1         \* mutating calls in one behaviour
MaxLinks == 4       \* symlinks followed in one resolution (255 in path/filepath)
MaxSlices == 2      \* slices a caller holds at once
MaxBatch == 2       \* paths in one read_multiple_files call
MaxDepth == 4       \* segments in the longest path the filesystem accepts (PATH_MAX)

----------------------------------------------------------------------------
(* Names and strings *)

Names == {"s", "se", "d", "f", "l", "n", "..h"}

\* the order in which a directory enumerates its entries (os.ReadDir, WalkDir: by name)
NameOrder == <<"..h", "F", "d", "f", "l", "n", "s", "se">>

Chars(n) ==
    CASE n = "s" -> <<"s">>
      [] n = "se" -> <<"s", "e">>
      [] n = "d" -> <<"d">>
      [] n = "f" -> <<"f">>
      [] n = "l" -> <<"l">>
      [] n = "n" -> <<"n">>
      [] n = "..h" -> <<".", ".", "h">>
      [] n = ".." -> <<".", ".">>
      [] n = "." -> <<".">>
      [] n = "~" -> <<"~">>
      [] n = "F" -> <<"F">>
      [] n = "*" -> <<"*">>
      [] n = "**" -> <<"*", "*">>

RECURSIVE JoinChars(_)
\* the characters of segs joined by the separator
JoinChars(segs) ==
    IF segs = <<>> THEN <<>>
    ELSE IF Len(segs) = 1 THEN Chars(segs[1])
    ELSE Chars(segs[1]) \o <<"/">> \o JoinChars(Tail(segs))

\* the characters of a path string
PathChars(p) ==
    IF p.abs THEN <<"/">> \o JoinChars(p.segs)
    ELSE JoinChars(p.segs)

\* strings.HasPrefix on character sequences
HasPrefix(s, prefix) ==
    /\ Len(s) >= Len(prefix)
    /\ SubSeq(s, 1, Len(prefix)) = prefix

\* the statements that follow a call, given what the call returned
Then(r, rest(_)) == rest(r)

Abs(segs) == [abs |-> TRUE, segs |-> segs]
Relp(segs) == [abs |-> FALSE, segs |-> segs]

EmptyString == Relp(<<>>)

RECURSIVE CleanSegs(_, _, _)
\* filepath.Clean on segments: out is the cleaned prefix built so far
CleanSegs(abs, out, rest) ==
    IF rest = <<>> THEN out
    ELSE LET c == Head(rest) IN
         IF c = "." THEN CleanSegs(abs, out, Tail(rest))
         ELSE IF c = ".." THEN
             IF out # <<>> /\ out[Len(out)] # ".."
             THEN CleanSegs(abs, SubSeq(out, 1, Len(out) - 1), Tail(rest))
             ELSE IF abs THEN CleanSegs(abs, out, Tail(rest))
             ELSE CleanSegs(abs, Append(out, ".."), Tail(rest))
         ELSE CleanSegs(abs, Append(out, c), Tail(rest))

\* filepath.Clean: a relative path that cleans to nothing is "."
Clean(p) ==
    Then(CleanSegs(p.abs, <<>>, p.segs), LAMBDA c :
        IF ~p.abs /\ c = <<>> THEN Relp(<<".">>) ELSE [abs |-> p.abs, segs |-> c])

\* filepath.Join(a, b) for a non-empty a
Join(a, b) == Clean([abs |-> a.abs, segs |-> a.segs \o b.segs])

\* filepath.Dir of a cleaned absolute path
Dir(p) ==
    IF p.segs = <<>> THEN p
    ELSE [abs |-> p.abs, segs |-> SubSeq(p.segs, 1, Len(p.segs) - 1)]

RECURSIVE CommonLen(_, _)
\* number of leading segments two paths share
CommonLen(a, b) ==
    IF a = <<>> \/ b = <<>> \/ Head(a) # Head(b) THEN 0
    ELSE 1 + CommonLen(Tail(a), Tail(b))

Dots(k) == [i \in 1..k |-> ".."]

\* the segments of a cleaned path as filepath.Rel sees them ("." is the empty path)
RelOperand(p) ==
    Then(Clean(p), LAMBDA c : IF c.segs = <<".">> THEN <<>> ELSE c.segs)

\* filepath.Rel(basepath, targpath)
Rel(basepath, targpath) ==
    Then(RelOperand(basepath), LAMBDA base :
    Then(RelOperand(targpath), LAMBDA targ :
    Then(CommonLen(base, targ), LAMBDA k :
        IF Clean(basepath) = Clean(targpath)
        THEN [ok |-> TRUE, path |-> Relp(<<".">>)]
        ELSE IF basepath.abs # targpath.abs
        THEN [ok |-> FALSE, path |-> EmptyString]
        ELSE IF k < Len(base) /\ base[k + 1] = ".."
        THEN [ok |-> FALSE, path |-> EmptyString]
        ELSE [ok |-> TRUE,
              path |-> Relp(Dots(Len(base) - k) \o SubSeq(targ, k + 1, Len(targ)))])))

----------------------------------------------------------------------------
(* Boundary validator: pkg/security *)

\* a plausible slip: bare string-prefix comparison
isPathUnderDirectoryPrefix(path, dir) ==
    HasPrefix(PathChars(path), PathChars(dir))

isPathUnderDirectory(path, dir) ==
    Then(Rel(dir, path), LAMBDA rel :
        rel.ok /\ ~HasPrefix(PathChars(rel.path), <<".", ".">>))

isPathAllowed(absolutePath, allowed) ==
    Then(Clean(absolutePath), LAMBDA normalizedPath :
        \E i \in 1..Len(allowed) : isPathUnderDirectory(normalizedPath, allowed[i]))

\* NewPathValidator: the configured directories, each cleaned
NewPathValidator(allowedDirs) ==
    [i \in 1..Len(allowedDirs) |-> Clean(allowedDirs[i])]

\* a plausible slip: the internal slice itself is handed out
GetAllowedDirectoriesShared(internal) == [shares |-> TRUE, elems |-> internal]

\* GetAllowedDirectories: a new slice that holds a copy of the elements
GetAllowedDirectories(internal) == [shares |-> FALSE, elems |-> internal]

----------------------------------------------------------------------------
(* The filesystem and the operating system's path resolution *)

FileNode(data, mode) == [kind |-> "file", data |-> data, mode |-> mode]
DirNode(mode) == [kind |-> "dir", mode |-> mode]
LinkNode(target) == [kind |-> "link", target |-> target]

\* the root always exists and is a directory
IsDirAt(p, F) == p = <<>> \/ (p \in DOMAIN F /\ F[p].kind = "dir")

Resolved(p, exists) == [ok |-> TRUE, path |-> p, exists |-> exists, err |-> "nil"]
Failed(err) == [ok |-> FALSE, path |-> <<>>, exists |-> FALSE, err |-> err]

RECURSIVE Walk(_, _, _, _, _)
\* Resolution of a path, component by component, following every symlink:
\* dest is the real location reached, rest the components still to walk.
\* With create, a missing final component resolves to the place where it
\* would be created (open with O_CREAT follows a dangling symlink).
Walk(dest, rest, fuel, F, create) ==
    IF rest = <<>> THEN Resolved(dest, TRUE)
    ELSE LET c == Head(rest)
             p == Append(dest, c)
         IN  IF ~IsDirAt(dest, F) THEN Failed("ENOTDIR")
             ELSE IF p \notin DOMAIN F
             THEN IF create /\ Tail(rest) = <<>> THEN Resolved(p, FALSE)
                  ELSE Failed("ENOENT")
             ELSE IF F[p].kind = "link"
             THEN IF fuel = 0 THEN Failed("ELOOP")
                  ELSE Walk(<<>>, F[p].target \o Tail(rest), fuel - 1, F, create)
             ELSE Walk(p, Tail(rest), fuel, F, create)

\* filepath.EvalSymlinks of a cleaned absolute path
EvalSymlinks(p, F) ==
    Then(Walk(<<>>, p.segs, MaxLinks, F, FALSE), LAMBDA r :
        [ok |-> r.ok, path |-> Abs(r.path), err |-> r.err])

----------------------------------------------------------------------------
(* Operating-system calls.  Each takes the segments of an absolute path and *)
(* a filesystem, and returns the outcome and the filesystem afterwards.     *)

RootNode == DirNode("0755")

\* p is d or lies beneath d, segment by segment
Under(p, d) == Len(d) <= Len(p) /\ SubSeq(p, 1, Len(d)) = d

NodeAt(q, F) == IF q = <<>> THEN RootNode ELSE F[q]

Last(q) == q[Len(q)]
Parent(q) == SubSeq(q, 1, Len(q) - 1)

\* os.Stat: follows every symlink
OsStat(p, F) ==
    Then(Walk(<<>>, p, MaxLinks, F, FALSE), LAMBDA r :
        [ok |-> r.ok, err |-> r.err, real |-> r.path,
         node |-> IF r.ok THEN NodeAt(r.path, F) ELSE RootNode])

\* os.Lstat: follows the symlinks of the parent only
OsLstat(p, F) ==
    IF p = <<>> THEN [ok |-> TRUE, err |-> "nil", real |-> <<>>, node |-> RootNode]
    ELSE Then(Walk(<<>>, Parent(p), MaxLinks, F, FALSE), LAMBDA r :
         Then(Append(r.path, Last(p)), LAMBDA q :
             IF ~r.ok THEN [ok |-> FALSE, err |-> r.err, real |-> <<>>, node |-> RootNode]
             ELSE IF ~IsDirAt(r.path, F)
             THEN [ok |-> FALSE, err |-> "ENOTDIR", real |-> <<>>, node |-> RootNode]
             ELSE IF q \notin DOMAIN F
             THEN [ok |-> FALSE, err |-> "ENOENT", real |-> q, node |-> RootNode]
             ELSE [ok |-> TRUE, err |-> "nil", real |-> q, node |-> F[q]]))

\* the names in a real directory, in enumeration order
EntryNames(q, F) == SelectSeq(NameOrder, LAMBDA n : Append(q, n) \in DOMAIN F)

\* os.ReadDir
OsReadDir(p, F) ==
    Then(OsStat(p, F), LAMBDA st :
        IF ~st.ok THEN [ok |-> FALSE, err |-> st.err, real |-> <<>>, names |-> <<>>]
        ELSE IF st.node.kind # "dir"
        THEN [ok |-> FALSE, err |-> "ENOTDIR", real |-> st.real, names |-> <<>>]
        ELSE [ok |-> TRUE, err |-> "nil", real |-> st.real,
              names |-> EntryNames(st.real, F)])

Done(F) == [ok |-> TRUE, err |-> "nil", fs |-> F]
Fail(err, F) == [ok |-> FALSE, err |-> err, fs |-> F]

\* os.Mkdir
OsMkdir(p, mode, F) ==
    Then(OsLstat(p, F), LAMBDA st :
        IF p = <<>> \/ st.ok THEN Fail("EEXIST", F)
        ELSE IF st.err # "ENOENT" \/ st.real = <<>> THEN Fail(st.err, F)
        ELSE IF Len(st.real) > MaxDepth THEN Fail("ENAMETOOLONG", F)
        ELSE Done(F @@ (st.real :> DirNode(mode))))

RECURSIVE OsMkdirAll(_, _, _)
\* os.MkdirAll
OsMkdirAll(p, mode, F) ==
    Then(OsStat(p, F), LAMBDA st :
        IF st.ok
        THEN IF st.node.kind = "dir" THEN Done(F) ELSE Fail("ENOTDIR", F)
        ELSE Then(IF Len(p) >= 2 THEN OsMkdirAll(Parent(p), mode, F) ELSE Done(F),
                  LAMBDA up :
             IF ~up.ok THEN up
             ELSE Then(OsMkdir(p, mode, up.fs), LAMBDA mk :
                  IF mk.ok THEN mk
                  ELSE Then(OsLstat(p, up.fs), LAMBDA ls :
                       IF ls.ok /\ ls.node.kind = "dir" THEN Done(up.fs)
                       ELSE mk))))

\* os.OpenFile(O_WRONLY|O_CREATE|O_TRUNC, perm) followed by writing data
OsWrite(p, data, perm, F) ==
    Then(Walk(<<>>, p, MaxLinks, F, TRUE), LAMBDA r :
        IF ~r.ok THEN Fail(r.err, F)
        ELSE IF r.path = <<>> THEN Fail("EISDIR", F)
        ELSE IF r.exists
        THEN IF F[r.path].kind = "dir" THEN Fail("EISDIR", F)
             ELSE Done([F EXCEPT ![r.path].data = data])
        ELSE IF Len(r.path) > MaxDepth THEN Fail("ENAMETOOLONG", F)
        ELSE Done(F @@ (r.path :> FileNode(data, perm))))

\* os.ReadFile / os.Open and reading to the end
OsRead(p, F) ==
    Then(OsStat(p, F), LAMBDA st :
        IF ~st.ok THEN [ok |-> FALSE, err |-> st.err, data |-> <<>>]
        ELSE IF st.node.kind = "dir" THEN [ok |-> FALSE, err |-> "EISDIR", data |-> <<>>]
        ELSE [ok |-> TRUE, err |-> "nil", data |-> st.node.data])

\* the entries at or beneath the real location q
Subtree(q, F) == {x \in DOMAIN F : Under(x, q)}

\* the filesystem with the subtree at qo moved to qn
Rekey(qo, qn, F) ==
    LET moved == Subtree(qo, F)
        kept == (DOMAIN F \ moved) \ {qn}
        to(x) == qn \o SubSeq(x, Len(qo) + 1, Len(x))
    IN  [y \in kept \cup {to(x) : x \in moved} |->
            IF y \in kept THEN F[y]
            ELSE F[CHOOSE x \in moved : to(x) = y]]

\* os.Rename; xdev: the two parent directories are on different devices
OsRename(old, new, xdev, F) ==
    Then(OsLstat(new, F), LAMBDA nl :
    Then(OsLstat(old, F), LAMBDA ol :
        IF old = <<>> \/ new = <<>> THEN Fail("EBUSY", F)
        ELSE IF nl.ok /\ nl.node.kind = "dir" /\ ~ol.ok THEN Fail(ol.err, F)
        ELSE IF nl.ok /\ nl.node.kind = "dir" /\ (new = old \/ nl.real # ol.real)
        THEN Fail("EEXIST", F)
        ELSE IF ~(ol.ok \/ ol.real # <<>>) THEN Fail(ol.err, F)
        ELSE IF ~(nl.ok \/ nl.real # <<>>) THEN Fail(nl.err, F)
        ELSE IF xdev /\ Parent(ol.real) # Parent(nl.real) THEN Fail("EXDEV", F)
        ELSE IF ~ol.ok THEN Fail("ENOENT", F)
        ELSE IF ol.real = nl.real THEN Done(F)
        ELSE IF Under(nl.real, ol.real) THEN Fail("EINVAL", F)
        ELSE IF nl.ok /\ ol.node.kind = "dir" THEN Fail("ENOTDIR", F)
        ELSE IF Len(nl.real) > MaxDepth
                \/ \E x \in Subtree(ol.real, F) :
                       Len(nl.real) + Len(x) - Len(ol.real) > MaxDepth
        THEN Fail("ENAMETOOLONG", F)
        ELSE Done(Rekey(ol.real, nl.real, F))))

\* os.RemoveAll: removes the entry and what is beneath it, following no symlink
OsRemoveAll(p, F) ==
    Then(OsLstat(p, F), LAMBDA st :
        IF p = <<>> THEN Fail("EBUSY", F)
        ELSE IF ~st.ok
        THEN IF st.err = "ENOENT" THEN Done(F) ELSE Fail(st.err, F)
        ELSE Done([y \in DOMAIN F \ Subtree(st.real, F) |-> F[y]]))

----------------------------------------------------------------------------
(* ValidatePath *)

WorkDir == Abs(<<"s">>)
HomeDir == Abs(<<"s", "d">>)

\* the outcomes of os.Getwd for a request
GetwdResults == {[ok |-> TRUE, dir |-> WorkDir], [ok |-> FALSE, dir |-> EmptyString]}

\* ExpandHomePath: "~" and "~/rest" become paths under the home directory
ExpandHomePath(path) ==
    IF ~path.abs /\ path.segs # <<>> /\ path.segs[1] = "~"
    THEN Join(HomeDir, Relp(Tail(path.segs)))
    ELSE path

Valid(p) == [ok |-> TRUE, path |-> p, err |-> "nil"]
Invalid(err) == [ok |-> FALSE, path |-> EmptyString, err |-> err]

validateRealPath(absolutePath, F, allowed) ==
    Then(EvalSymlinks(absolutePath, F), LAMBDA realPath :
        IF ~realPath.ok
        THEN Then(EvalSymlinks(Dir(absolutePath), F), LAMBDA realParentPath :
                 IF ~realParentPath.ok THEN Invalid("parent directory does not exist")
                 ELSE IF ~isPathAllowed(realParentPath.path, allowed)
                 THEN Invalid("parent directory outside allowed directories")
                 ELSE Valid(absolutePath))
        ELSE IF ~isPathAllowed(realPath.path, allowed)
        THEN Invalid("symlink target outside allowed directories")
        ELSE Valid(realPath.path))

ValidatePath(requestedPath, F, allowed, wd) ==
    IF requestedPath = EmptyString THEN Invalid("path cannot be empty")
    ELSE Then(ExpandHomePath(requestedPath), LAMBDA expandedPath :
         IF ~expandedPath.abs /\ ~wd.ok
         THEN Invalid("failed to get working directory")
         ELSE Then(IF expandedPath.abs THEN Clean(expandedPath)
                   ELSE Join(wd.dir, expandedPath),
                   LAMBDA absolutePath :
              IF ~isPathAllowed(absolutePath, allowed)
              THEN Invalid("path outside allowed directories")
              ELSE validateRealPath(absolutePath, F, allowed)))

----------------------------------------------------------------------------
(* Operation engine: pkg/filesystem.  Text is a sequence of characters.    *)

LF == "LF"
CR == "CR"
SP == " "
TAB == "TAB"

RECURSIVE IndexFrom(_, _, _)
\* the first index at or after i where sub occurs in text, 0 if none
IndexFrom(text, sub, i) ==
    IF i + Len(sub) - 1 > Len(text) THEN 0
    ELSE IF SubSeq(text, i, i + Len(sub) - 1) = sub THEN i
    ELSE IndexFrom(text, sub, i + 1)

\* strings.Contains
Contains(text, sub) == IndexFrom(text, sub, 1) # 0

RECURSIVE ReplaceEvery(_, _, _)
ReplaceEvery(text, old, new) ==
    Then(IndexFrom(text, old, 1), LAMBDA i :
        IF i = 0 \/ old = <<>> THEN text
        ELSE SubSeq(text, 1, i - 1) \o new
                 \o ReplaceEvery(SubSeq(text, i + Len(old), Len(text)), old, new))

\* strings.Replace(text, old, new, 1)
ReplaceFirst(text, old, new) ==
    Then(IndexFrom(text, old, 1), LAMBDA i :
        IF i = 0 THEN text
        ELSE SubSeq(text, 1, i - 1) \o new \o SubSeq(text, i + Len(old), Len(text)))

RECURSIVE normalizeLineEndings(_)
\* strings.ReplaceAll(text, "\r\n", "\n")
normalizeLineEndings(text) ==
    IF text = <<>> THEN <<>>
    ELSE IF Len(text) >= 2 /\ text[1] = CR /\ text[2] = LF
    THEN <<LF>> \o normalizeLineEndings(SubSeq(text, 3, Len(text)))
    ELSE <<text[1]>> \o normalizeLineEndings(Tail(text))

RECURSIVE SplitLines(_, _)
\* strings.Split(text, "\n"): cur is the line being collected
SplitLines(text, cur) ==
    IF text = <<>> THEN <<cur>>
    ELSE IF Head(text) = LF THEN <<cur>> \o SplitLines(Tail(text), <<>>)
    ELSE SplitLines(Tail(text), Append(cur, Head(text)))

RECURSIVE JoinLines(_)
\* strings.Join(lines, "\n")
JoinLines(lines) ==
    IF lines = <<>> THEN <<>>
    ELSE IF Len(lines) = 1 THEN lines[1]
    ELSE lines[1] \o <<LF>> \o JoinLines(Tail(lines))

RECURSIVE TrimLeftSet(_, _)
\* strings.TrimLeft(line, cutset)
TrimLeftSet(line, cutset) ==
    IF line # <<>> /\ Head(line) \in cutset THEN TrimLeftSet(Tail(line), cutset)
    ELSE line

RECURSIVE TrimRightSet(_, _)
TrimRightSet(line, cutset) ==
    IF line # <<>> /\ line[Len(line)] \in cutset
    THEN TrimRightSet(SubSeq(line, 1, Len(line) - 1), cutset)
    ELSE line

\* strings.TrimSpace
TrimSpace(line) == TrimRightSet(TrimLeftSet(line, {SP, TAB, CR, LF}), {SP, TAB, CR, LF})

dropsIndentation(line) == <<>>

\* extractIndentation: the leading run of spaces and tabs
extractIndentation(line) ==
    SubSeq(line, 1, Len(line) - Len(TrimLeftSet(line, {SP, TAB})))

linesMatch(contentLines, oldLines) ==
    /\ Len(contentLines) = Len(oldLines)
    /\ \A i \in 1..Len(oldLines) : TrimSpace(contentLines[i]) = TrimSpace(oldLines[i])

RECURSIVE LineSearch(_, _, _, _)
\* the loop of applyLineBasedEdit, from 1-based position i
LineSearch(contentLines, oldLines, newText, i) ==
    IF i > Len(contentLines) - Len(oldLines) + 1
    THEN [ok |-> FALSE, text |-> <<>>]
    ELSE IF linesMatch(SubSeq(contentLines, i, i + Len(oldLines) - 1), oldLines)
    THEN Then(SplitLines(newText, <<>>), LAMBDA split :
         Then([split EXCEPT ![1] = extractIndentation(contentLines[i])
                                       \o TrimLeftSet(split[1], {SP, TAB})],
              LAMBDA newLines :
             [ok |-> TRUE,
              text |-> JoinLines(SubSeq(contentLines, 1, i - 1) \o newLines
                           \o SubSeq(contentLines, i + Len(oldLines), Len(contentLines)))]))
    ELSE LineSearch(contentLines, oldLines, newText, i + 1)

applyLineBasedEdit(content, oldText, newText) ==
    LineSearch(SplitLines(content, <<>>), SplitLines(oldText, <<>>), newText, 1)

RECURSIVE EditLoop(_, _, _)
\* the loop of applyEdits, at 1-based edit i
EditLoop(modifiedContent, edits, i) ==
    IF i > Len(edits) THEN [ok |-> TRUE, text |-> modifiedContent, edit |-> 0]
    ELSE Then(normalizeLineEndings(edits[i].oldText), LAMBDA oldText :
         Then(normalizeLineEndings(edits[i].newText), LAMBDA newText :
             IF Contains(modifiedContent, oldText)
             THEN EditLoop(ReplaceFirst(modifiedContent, oldText, newText), edits, i + 1)
             ELSE Then(applyLineBasedEdit(modifiedContent, oldText, newText), LAMBDA r :
                  IF ~r.ok THEN [ok |-> FALSE, text |-> <<>>, edit |-> i]
                  ELSE EditLoop(r.text, edits, i + 1))))

applyEdits(content, edits) == EditLoop(normalizeLineEndings(content), edits, 1)

\* createUnifiedDiff: the patch is represented by the two texts it relates
createUnifiedDiff(original, modified) == [original |-> original, modified |-> modified]

maxReadSize == 1048576

\* the ceiling the tests of WriteFile name
maxWriteSize == maxReadSize

\* a run of maxReadSize bytes "b" (bytes.Repeat), kept as one element of a text
Block == "b * 1048576"

RECURSIVE ByteLen(_)
\* len of a text in bytes; os.FileInfo.Size of a file holding it
ByteLen(text) ==
    IF text = <<>> THEN 0
    ELSE (IF Head(text) = Block THEN maxReadSize ELSE 1) + ByteLen(Tail(text))

exceedsReadLimitAtCeiling(size) == size >= maxReadSize

\* the size guard of ReadFile
exceedsReadLimit(size) == size > maxReadSize

\* results of engine calls: outcome, value, and the filesystem afterwards
OpOk(val, F) == [ok |-> TRUE, err |-> "nil", val |-> val, fs |-> F]
OpErr(err, F) == [ok |-> FALSE, err |-> err, val |-> <<>>, fs |-> F]

ReadFile(filePath, F) ==
    IF filePath = EmptyString THEN OpErr("file path cannot be empty", F)
    ELSE Then(OsStat(filePath.segs, F), LAMBDA info :
         IF ~info.ok THEN OpErr("failed to stat file", F)
         ELSE IF info.node.kind = "file" /\ exceedsReadLimit(ByteLen(info.node.data))
         THEN OpErr("file exceeds maximum allowed size", F)
         ELSE Then(OsRead(filePath.segs, F), LAMBDA data :
              IF ~data.ok THEN OpErr("failed to read file", F)
              ELSE OpOk(data.data, F)))

\* one segment of the ReadMultipleFiles result
Segment(filePath, F) ==
    Then(ReadFile(filePath, F), LAMBDA r :
        [path |-> filePath, ok |-> r.ok, text |-> r.val, err |-> r.err])

ReadMultipleFilesAborting(filePaths, F) ==
    IF Len(filePaths) = 0 THEN OpErr("no file paths provided", F)
    ELSE IF \E i \in 1..Len(filePaths) : ~Segment(filePaths[i], F).ok
    THEN OpErr("failed to read file", F)
    ELSE OpOk([i \in 1..Len(filePaths) |-> Segment(filePaths[i], F)], F)

ReadMultipleFiles(filePaths, F) ==
    IF Len(filePaths) = 0 THEN OpErr("no file paths provided", F)
    ELSE OpOk([i \in 1..Len(filePaths) |-> Segment(filePaths[i], F)], F)

WriteFile(filePath, content, F) ==
    IF filePath = EmptyString THEN OpErr("file path cannot be empty", F)
    ELSE Then(OsWrite(filePath.segs, content, "0644", F), LAMBDA w :
         IF ~w.ok THEN OpErr("failed to write file", F)
         ELSE OpOk(<<>>, w.fs))

Digits == <<"0", "1", "2", "3", "4", "5", "6", "7", "8", "9">>

RECURSIVE Itoa(_)
\* the decimal text fmt prints for %d
Itoa(n) == IF n < 10 THEN Digits[n + 1] ELSE Itoa(n \div 10) \o Digits[(n % 10) + 1]

editErrorZeroBased(i) == "could not apply edit " \o Itoa(i - 1)

\* the error of applyEdits for the i-th edit, counted from one
editError(i) == "could not apply edit " \o Itoa(i)

writesAlways(dryRun) == TRUE

\* the guard of the write at the end of EditFile
writesBack(dryRun) == ~dryRun

EditFile(filePath, edits, dryRun, F) ==
    IF filePath = EmptyString THEN OpErr("file path cannot be empty", F)
    ELSE IF Len(edits) = 0 THEN OpErr("no edits provided", F)
    ELSE Then(ReadFile(filePath, F), LAMBDA originalContent :
         IF ~originalContent.ok THEN OpErr(originalContent.err, F)
         ELSE Then(applyEdits(originalContent.val, edits), LAMBDA modifiedContent :
              IF ~modifiedContent.ok THEN OpErr(editError(modifiedContent.edit), F)
              ELSE Then(createUnifiedDiff(originalContent.val, modifiedContent.text),
                        LAMBDA diff :
                   IF ~writesBack(dryRun) THEN OpOk(diff, F)
                   ELSE Then(WriteFile(filePath, modifiedContent.text, F), LAMBDA w :
                        IF ~w.ok THEN OpErr(w.err, F)
                        ELSE OpOk(diff, w.fs)))))

CreateDirectory(dirPath, F) ==
    IF dirPath = EmptyString THEN OpErr("directory path cannot be empty", F)
    ELSE Then(OsMkdirAll(dirPath.segs, "0755", F), LAMBDA m :
         IF ~m.ok THEN OpErr("failed to create directory", F)
         ELSE OpOk(<<>>, m.fs))

ListDirectory(dirPath, F) ==
    IF dirPath = EmptyString THEN OpErr("directory path cannot be empty", F)
    ELSE Then(OsReadDir(dirPath.segs, F), LAMBDA entries :
         IF ~entries.ok THEN OpErr("failed to read directory", F)
         ELSE OpOk([i \in 1..Len(entries.names) |->
                      [name |-> entries.names[i],
                       dir |-> F[Append(entries.real, entries.names[i])].kind = "dir"]], F))

GetFileInfo(filePath, F) ==
    IF filePath = EmptyString THEN OpErr("file path cannot be empty", F)
    ELSE Then(OsStat(filePath.segs, F), LAMBDA stat :
         IF ~stat.ok THEN OpErr("failed to get file info", F)
         ELSE OpOk([size |-> IF stat.node.kind = "file" THEN ByteLen(stat.node.data) ELSE 0,
                    isDirectory |-> stat.node.kind = "dir",
                    isFile |-> stat.node.kind = "file",
                    permissions |-> stat.node.mode], F))

\* copyFile
copyFile(src, dst, perm, F) ==
    Then(OsMkdirAll(Parent(dst), "0755", F), LAMBDA m :
        IF ~m.ok THEN m
        ELSE Then(OsStat(src, m.fs), LAMBDA in :
             IF ~in.ok THEN Fail(in.err, m.fs)
             ELSE Then(OsWrite(dst, <<>>, perm, m.fs), LAMBDA out :
                  IF ~out.ok THEN out
                  ELSE Then(OsRead(src, out.fs), LAMBDA data :
                       IF ~data.ok THEN Fail(data.err, out.fs)
                       ELSE OsWrite(dst, data.data, perm, out.fs)))))

\* the children of a directory as paths, in enumeration order
ChildPaths(dir, F) ==
    Then(OsReadDir(dir, F).names, LAMBDA names :
        [i \in 1..Len(names) |-> Append(dir, names[i])])

\* the callback copyDir gives to filepath.WalkDir, at one path
copyEntry(path, d, srcDir, dstDir, F) ==
    Then(dstDir \o SubSeq(path, Len(srcDir) + 1, Len(path)), LAMBDA target :
        IF d.node.kind = "dir" THEN OsMkdirAll(target, d.node.mode, F)
        ELSE copyFile(path, target,
                      IF d.node.kind = "file" THEN d.node.mode ELSE "0777", F))

RECURSIVE WalkDir(_, _, _, _)
\* filepath.WalkDir: todo holds the paths still to visit, in order; a
\* directory's entries are read after the callback has run on it, and the
\* first error ends the walk
WalkDir(todo, srcDir, dstDir, F) ==
    IF todo = <<>> THEN Done(F)
    ELSE Then(Head(todo), LAMBDA path :
         Then(OsLstat(path, F), LAMBDA d :
             IF ~d.ok THEN Fail(d.err, F)
             ELSE Then(copyEntry(path, d, srcDir, dstDir, F), LAMBDA r :
                  IF ~r.ok THEN r
                  ELSE IF d.node.kind = "dir"
                  THEN WalkDir(ChildPaths(path, r.fs) \o Tail(todo), srcDir, dstDir, r.fs)
                  ELSE WalkDir(Tail(todo), srcDir, dstDir, r.fs))))

copyDir(srcDir, dstDir, F) == WalkDir(<<srcDir>>, srcDir, dstDir, F)

copyRecursive(src, dst, F) ==
    Then(OsStat(src, F), LAMBDA info :
        IF ~info.ok THEN Fail(info.err, F)
        ELSE IF info.node.kind = "dir" THEN copyDir(src, dst, F)
        ELSE copyFile(src, dst, info.node.mode, F))

alreadyExistsAsDir(st) == st.ok /\ st.node.kind = "dir"

\* the test MoveFile makes on os.Stat(destPath): err == nil
alreadyExists(st) == st.ok

copyFailedCleansUp(sourcePath, cp) ==
    OpErr("failed to copy during move", OsRemoveAll(sourcePath.segs, cp.fs).fs)

\* MoveFile when copyRecursive returned an error: the error is returned and
\* nothing else is done
copyFailed(sourcePath, cp) == OpErr("failed to copy during move", cp.fs)

\* MoveFile up to the test of the destination: the error it returns there,
\* or ok when it goes on to rename
moveCheck(sourcePath, destPath, F) ==
    IF sourcePath = EmptyString THEN OpErr("source path cannot be empty", F)
    ELSE IF destPath = EmptyString THEN OpErr("destination path cannot be empty", F)
    ELSE Then(OsStat(destPath.segs, F), LAMBDA st :
         IF alreadyExists(st) THEN OpErr("destination already exists", F)
         ELSE IF st.err # "ENOENT" THEN OpErr("failed to check destination", F)
         ELSE OpOk(<<>>, F))

\* MoveFile from the rename on, on the filesystem as it is by then
moveTransfer(sourcePath, destPath, xdev, F) ==
    Then(OsRename(sourcePath.segs, destPath.segs, xdev, F), LAMBDA rn :
        IF rn.ok THEN OpOk(<<>>, rn.fs)
        ELSE IF rn.err # "EXDEV" THEN OpErr("failed to move file", F)
        ELSE Then(copyRecursive(sourcePath.segs, destPath.segs, F), LAMBDA cp :
             IF ~cp.ok THEN copyFailed(sourcePath, cp)
             ELSE Then(OsRemoveAll(sourcePath.segs, cp.fs), LAMBDA rm :
                  IF ~rm.ok THEN OpErr("failed to remove source after copy", rm.fs)
                  ELSE OpOk(<<>>, rm.fs))))

\* MoveFile when no other call runs between its steps
MoveFile(sourcePath, destPath, xdev, F) ==
    Then(moveCheck(sourcePath, destPath, F), LAMBDA chk :
        IF ~chk.ok THEN chk
        ELSE moveTransfer(sourcePath, destPath, xdev, F))

\* the callers that run MoveFile at the same time
Callers == {"a", "b"}

\* a caller's MoveFile: not called, between the test of the destination and
\* the rename, or returned
NotCalled == [pc |-> "idle"]
Checked(sourcePath, destPath, xdev) ==
    [pc |-> "checked", sourcePath |-> sourcePath, destPath |-> destPath, xdev |-> xdev]
Returned(sourcePath, destPath, xdev, r) ==
    [pc |-> "done", sourcePath |-> sourcePath, destPath |-> destPath, xdev |-> xdev,
     ok |-> r.ok, err |-> r.err]

NoMoves == [c \in Callers |-> NotCalled]

----------------------------------------------------------------------------
(* DirectoryTree.  A TreeEntry is [Name, Type, Children]; Children is a     *)
(* pointer to a slice of entries, nil for an entry that is not a directory. *)

maxTreeDepth == 20

NilChildren == [nil |-> TRUE, elems |-> <<>>]
PtrTo(children) == [nil |-> FALSE, elems |-> children]

\* what a direct caller of the engine receives
EngineResp(op, args, r) ==
    [op |-> op, args |-> args, ok |-> r.ok, err |-> r.err, val |-> r.val]

\* results of buildTree: the entries and the error
TreeOk(entries) == [ok |-> TRUE, err |-> "nil", entries |-> entries]
TreeErr(err) == [ok |-> FALSE, err |-> err, entries |-> <<>>]

\* the depth DirectoryTree starts buildTree at
RootDepth == 0

\* no DirectoryTree call in progress
Idle == [active |-> FALSE, root |-> EmptyString, visited |-> {}, stack |-> <<>>]

\* an activation of buildTree about to run: its arguments dirPath and depth
\* (visited is the one map of the call), and its locals entries, the loop
\* index and result
Activation(dirPath, depth) ==
    [dirPath |-> dirPath, depth |-> depth, pc |-> "enter",
     entries |-> [real |-> <<>>, names |-> <<>>], i |-> 0, result |-> <<>>]

\* DirectoryTree up to the call of buildTree
StartTree(dirPath, validPath) ==
    [active |-> TRUE, root |-> dirPath, visited |-> {},
     stack |-> <<Activation(validPath, RootDepth)>>]

Top(call) == call.stack[Len(call.stack)]
SetTop(call, f) == [call EXCEPT !.stack[Len(call.stack)] = f]

depthNeverExceeded(depth) == FALSE

\* the guard at the head of buildTree
depthExceeded(depth) == depth > maxTreeDepth

EntryIsDirFollowing(real, name, F) ==
    Then(OsStat(Append(real, name), F), LAMBDA st : st.ok /\ st.node.kind = "dir")

\* DirEntry.IsDir of an entry os.ReadDir returned: the type of the entry
\* itself, a symlink is not a directory
EntryIsDir(real, name, F) == F[Append(real, name)].kind = "dir"

RECURSIVE MarshalEntries(_)

MarshalEntryOmitEmpty(e) ==
    IF e.Children.nil \/ e.Children.elems = <<>>
    THEN [name |-> e.Name, type |-> e.Type]
    ELSE [name |-> e.Name, type |-> e.Type,
          children |-> MarshalEntries(e.Children.elems)]

\* json.Marshal of a TreeEntry: "children,omitempty" on a pointer leaves the
\* key out for a nil pointer only
MarshalEntry(e) ==
    IF e.Children.nil
    THEN [name |-> e.Name, type |-> e.Type]
    ELSE [name |-> e.Name, type |-> e.Type,
          children |-> MarshalEntries(e.Children.elems)]

\* json.MarshalIndent of a slice of entries (every slice buildTree returns
\* without an error is made by make or a literal, none is nil): a JSON array
MarshalEntries(entries) == [i \in 1..Len(entries) |-> MarshalEntry(entries[i])]

\* what the caller of DirectoryTree receives once buildTree has returned res
TreeResult(call, res, F) ==
    EngineResp("DirectoryTree", <<call.root>>,
               IF ~res.ok THEN OpErr(res.err, F)
               ELSE OpOk(MarshalEntries(res.entries), F))

\* the call and the response after the running activation is left alone
Continuing(call) == [treeCall |-> call, response |-> [op |-> "none"]]

\* the running activation returns res: to DirectoryTree when it is the first
\* activation, otherwise into the loop of the activation that called it,
\* which stores the children (an empty list on error) and moves on
Returning(call, res, F) ==
    IF Len(call.stack) = 1
    THEN [treeCall |-> Idle, response |-> TreeResult(call, res, F)]
    ELSE Then(call.stack[Len(call.stack) - 1], LAMBDA caller :
         Continuing(
           [call EXCEPT !.stack =
              Append(SubSeq(call.stack, 1, Len(call.stack) - 2),
                     [caller EXCEPT
                        !.i = @ + 1,
                        !.result = Append(@,
                           [Name |-> caller.entries.names[caller.i],
                            Type |-> "directory",
                            Children |-> PtrTo(IF res.ok THEN res.entries
                                               ELSE <<>>)])])]))

\* buildTree from its head to the loop: depth guard, real path, visited map,
\* os.ReadDir
buildTreeHead(call, F) ==
    Then(Top(call), LAMBDA f :
        IF depthExceeded(f.depth)
        THEN Returning(call, TreeErr("maximum directory depth exceeded"), F)
        ELSE Then(EvalSymlinks(f.dirPath, F), LAMBDA ev :
             Then(IF ev.ok THEN ev.path ELSE Clean(f.dirPath), LAMBDA realPath :
                 IF realPath \in call.visited THEN Returning(call, TreeOk(<<>>), F)
                 ELSE Then([call EXCEPT !.visited = @ \cup {realPath}], LAMBDA marked :
                      Then(OsReadDir(f.dirPath.segs, F), LAMBDA entries :
                          IF ~entries.ok
                          THEN Returning(marked, TreeErr("failed to read directory"), F)
                          ELSE Continuing(SetTop(marked,
                                   [f EXCEPT !.pc = "loop", !.i = 1,
                                             !.entries = [real |-> entries.real,
                                                          names |-> entries.names]])))))))

\* one turn of the loop of buildTree, and its return after the last entry
buildTreeLoop(call, F, allowed) ==
    Then(Top(call), LAMBDA f :
        IF f.i > Len(f.entries.names) THEN Returning(call, TreeOk(f.result), F)
        ELSE Then(f.entries.names[f.i], LAMBDA name :
             IF ~EntryIsDir(f.entries.real, name, F)
             THEN Continuing(SetTop(call,
                      [f EXCEPT !.i = @ + 1,
                                !.result = Append(@, [Name |-> name, Type |-> "file",
                                                      Children |-> NilChildren])]))
             ELSE Then(ValidatePath(Join(f.dirPath, Relp(<<name>>)), F, allowed,
                                    [ok |-> TRUE, dir |-> WorkDir]), LAMBDA validPath :
                  IF ~validPath.ok
                  THEN Continuing(SetTop(call, [f EXCEPT !.i = @ + 1]))
                  ELSE Continuing([call EXCEPT !.stack =
                           Append(@, Activation(validPath.path, f.depth + 1))]))))

\* DirectoryTree up to the call of buildTree
DirectoryTree(dirPath, F, allowed) ==
    IF dirPath = EmptyString
    THEN [treeCall |-> Idle,
          response |-> EngineResp("DirectoryTree", <<dirPath>>,
                                  OpErr("directory path cannot be empty", F))]
    ELSE Then(ValidatePath(dirPath, F, allowed, [ok |-> TRUE, dir |-> WorkDir]),
              LAMBDA validPath :
         IF ~validPath.ok
         THEN [treeCall |-> Idle,
               response |-> EngineResp("DirectoryTree", <<dirPath>>,
                                       OpErr(validPath.err, F))]
         ELSE Continuing(StartTree(dirPath, validPath.path)))

----------------------------------------------------------------------------
(* SearchFiles.  A search pattern is a sequence of characters; an exclude  *)
(* pattern is the sequence of its segments between separators.            *)

ToLowerChar(c) == IF c = "F" THEN "f" ELSE c

\* strings.ToLower
ToLower(text) == [i \in 1..Len(text) |-> ToLowerChar(text[i])]

\* one segment of a doublestar pattern against one segment of a name
SegmentMatch(p, n) == p = "*" \/ Chars(p) = Chars(n)

RECURSIVE DoublestarMatch(_, _)
\* doublestar.Match on segments: "**" stands for zero or more segments, and
\* a pattern whose rest is "/**" matches a name that has ended
DoublestarMatch(pattern, name) ==
    IF pattern = <<>> THEN name = <<>>
    ELSE IF Head(pattern) = "**"
    THEN \/ Len(pattern) = 1
         \/ DoublestarMatch(Tail(pattern), name)
         \/ name # <<>> /\ DoublestarMatch(pattern, Tail(name))
    ELSE /\ name # <<>>
         /\ SegmentMatch(Head(pattern), Head(name))
         /\ DoublestarMatch(Tail(pattern), Tail(name))

\* shouldExclude: a pattern without "*" becomes "**/" + pattern + "/**"
wraps(pattern) == <<"**">> \o pattern \o <<"**">>

\* shouldExclude
shouldExclude(relativePath, excludePatterns) ==
    \E k \in 1..Len(excludePatterns) :
        Then(excludePatterns[k], LAMBDA given :
        Then(IF \E j \in 1..Len(given) : Contains(Chars(given[j]), <<"*">>)
             THEN given ELSE wraps(given), LAMBDA pattern :
            DoublestarMatch(pattern, relativePath.segs)))

\* fs.DirEntry.Name of the entry at path
EntryName(path) == IF path.segs = <<>> THEN "/" ELSE Last(path.segs)

\* the paths filepath.WalkDir visits after a directory: filepath.Join(path, name)
WalkChildren(path, F) ==
    Then(OsReadDir(path.segs, F).names, LAMBDA names :
        [i \in 1..Len(names) |-> Join(path, Relp(<<names[i]>>))])

\* the callback of SearchFiles skips what fails validation
skipsInvalid(valid) == ~valid.ok

RECURSIVE searchWalk(_, _, _, _, _, _, _, _)
\* filepath.WalkDir with the callback of SearchFiles: todo holds the paths
\* still to visit, in order; results is the slice built so far.  An entry
\* that cannot be examined is passed to the callback with the error, and the
\* callback goes on
searchWalk(todo, rootPath, lowerPattern, excludePatterns, results, F, allowed, wd) ==
    IF todo = <<>> THEN results
    ELSE Then(Head(todo), LAMBDA path :
         Then(OsLstat(path.segs, F), LAMBDA d :
         Then(Tail(todo), LAMBDA after :
         Then(IF d.ok /\ d.node.kind = "dir" THEN WalkChildren(path, F) \o after
              ELSE after, LAMBDA into :
             IF ~d.ok
             THEN searchWalk(after, rootPath, lowerPattern, excludePatterns,
                             results, F, allowed, wd)
             ELSE IF skipsInvalid(ValidatePath(path, F, allowed, wd))
             THEN searchWalk(after, rootPath, lowerPattern, excludePatterns,
                             results, F, allowed, wd)
             ELSE Then(Rel(rootPath, path), LAMBDA rel :
                  IF rel.ok /\ shouldExclude(rel.path, excludePatterns)
                  THEN searchWalk(after, rootPath, lowerPattern, excludePatterns,
                                  results, F, allowed, wd)
                  ELSE IF Contains(ToLower(Chars(EntryName(path))), lowerPattern)
                  THEN searchWalk(into, rootPath, lowerPattern, excludePatterns,
                                  Append(results, path), F, allowed, wd)
                  ELSE searchWalk(into, rootPath, lowerPattern, excludePatterns,
                                  results, F, allowed, wd))))))

SearchFiles(rootPath, pattern, excludePatterns, F, allowed, wd) ==
    IF rootPath = EmptyString THEN OpErr("root path cannot be empty", F)
    ELSE IF pattern = <<>> THEN OpErr("search pattern cannot be empty", F)
    ELSE OpOk(searchWalk(<<rootPath>>, rootPath, ToLower(pattern), excludePatterns,
                         <<>>, F, allowed, wd), F)

----------------------------------------------------------------------------
(* Tool handlers: internal/handlers.  A handler's result carries what the  *)
(* caller sees (ok is "not IsError") and the filesystem afterwards.        *)

HOk(val, valid, F) == [ok |-> TRUE, err |-> "nil", val |-> val, valid |-> valid, fs |-> F]
HErr(err, valid, F) == [ok |-> FALSE, err |-> err, val |-> <<>>, valid |-> valid, fs |-> F]

\* the engine's result as the tool result
Lift(r, valid) == [ok |-> r.ok, err |-> r.err, val |-> r.val, valid |-> valid, fs |-> r.fs]

absentOnly(str) == str = EmptyString

\* getRequiredString: an empty string counts as missing
Missing(str) == str = EmptyString \/ str = <<>>

NoPath == <<>>

handleWriteFile(path, content, F, allowed, wd) ==
    IF Missing(path) THEN HErr("Path parameter is required", NoPath, F)
    ELSE IF Missing(content) THEN HErr("Content parameter is required", NoPath, F)
    ELSE Then(ValidatePath(path, F, allowed, wd), LAMBDA v :
         IF ~v.ok THEN HErr(v.err, NoPath, F)
         ELSE Lift(WriteFile(v.path, content, F), <<v.path>>))

\* getEditOperations: an empty list of edits is an error
handleEditFile(path, edits, dryRun, F, allowed, wd) ==
    IF Missing(path) THEN HErr("Path parameter is required", NoPath, F)
    ELSE IF Len(edits) = 0 THEN HErr("No valid edits provided", NoPath, F)
    ELSE Then(ValidatePath(path, F, allowed, wd), LAMBDA v :
         IF ~v.ok THEN HErr(v.err, NoPath, F)
         ELSE Lift(EditFile(v.path, edits, dryRun, F), <<v.path>>))

handleCreateDirectory(path, F, allowed, wd) ==
    IF Missing(path) THEN HErr("Path parameter is required", NoPath, F)
    ELSE Then(ValidatePath(path, F, allowed, wd), LAMBDA v :
         IF ~v.ok THEN HErr(v.err, NoPath, F)
         ELSE Lift(CreateDirectory(v.path, F), <<v.path>>))

handleMoveFile(source, destination, xdev, F, allowed, wd) ==
    IF Missing(source) THEN HErr("Source parameter is required", NoPath, F)
    ELSE IF Missing(destination) THEN HErr("Destination parameter is required", NoPath, F)
    ELSE Then(ValidatePath(source, F, allowed, wd), LAMBDA validSource :
         IF ~validSource.ok THEN HErr(validSource.err, NoPath, F)
         ELSE Then(ValidatePath(destination, F, allowed, wd), LAMBDA validDestination :
              IF ~validDestination.ok THEN HErr(validDestination.err, NoPath, F)
              ELSE Lift(MoveFile(validSource.path, validDestination.path, xdev, F),
                        <<validSource.path, validDestination.path>>)))

\* getRequiredStringSlice: empty strings are dropped; nothing left is an error
NonEmpty(paths) == SelectSeq(paths, LAMBDA x : x # EmptyString)

\* the loop of handleReadMultipleFiles: what is handed to the engine for one path
BatchPath(path, F, allowed, wd) ==
    Then(ValidatePath(path, F, allowed, wd), LAMBDA v :
        IF ~v.ok THEN path ELSE v.path)

handleReadMultipleFiles(pathsArg, F, allowed, wd) ==
    Then(NonEmpty(pathsArg), LAMBDA pathsSlice :
        IF Len(pathsSlice) = 0 THEN HErr("Paths parameter is required", NoPath, F)
        ELSE Then([i \in 1..Len(pathsSlice) |->
                      BatchPath(pathsSlice[i], F, allowed, wd)],
                  LAMBDA paths :
             IF Len(paths) = 0 THEN HErr("No valid paths provided", NoPath, F)
             ELSE Lift(ReadMultipleFiles(paths, F), paths)))

----------------------------------------------------------------------------
(* Inputs and the initial state *)

SeqsUpTo(S, n) == UNION {[1..k -> S] : k \in 0..n}

\* requested path strings: absolute, relative, and relative starting with "~"
ReqPaths ==
    {[abs |-> a, segs |-> s] : a \in BOOLEAN, s \in SeqsUpTo(Names \cup {".."}, MaxReqLen)}
    \cup {Relp(<<"~">> \o s) : s \in SeqsUpTo(Names \cup {".."}, MaxReqLen)}

\* the directories the configuration hands to the validator
ConfiguredDirs == <<Abs(<<"s", ".">>)>>

NoLink == <<"-">>

\* where the symlink /s/l points in the initial filesystem
LinkTargets ==
    {<<"se", "f">>, <<"se", "n">>, <<"se">>, <<"s", "f">>, <<"s", "n">>,
     <<"s", "..h">>, <<"s", "l">>, <<"s">>, <<"s", "d">>}

InitialFS(t) ==
    LET base == (<<"s">> :> DirNode("0755"))
                @@ (<<"s", "f">> :> FileNode(<<"a">>, "0644"))
                @@ (<<"s", "d">> :> DirNode("0755"))
                @@ (<<"s", "..h">> :> DirNode("0755"))
                @@ (<<"se">> :> DirNode("0755"))
                @@ (<<"se", "f">> :> FileNode(<<"x">>, "0600"))
    IN  IF t = NoLink THEN base ELSE base @@ (<<"s", "l">> :> LinkNode(t))

None == [op |-> "none"]

\* a caller's variable that holds no slice yet
NoSlice == [shares |-> FALSE, elems |-> <<>>]

Init ==
    /\ \E t \in LinkTargets \cup {NoLink} : fs = InitialFS(t)
    /\ allowedDirectories = NewPathValidator(ConfiguredDirs)
    /\ returned = [k \in 1..MaxSlices |-> NoSlice]
    /\ response = None
    /\ nOps = 0
    /\ treeCall = Idle
    /\ moveCalls = NoMoves

----------------------------------------------------------------------------
(* Calls *)

\* file contents a caller writes
Contents == {<<>>, <<"b">>}

\* edit lists a caller sends
EditLists ==
    {<<>>,
     <<[oldText |-> <<"a">>, newText |-> <<"b">>]>>,
     <<[oldText |-> <<"q">>, newText |-> <<"b">>]>>}

\* the paths a caller names in calls that take several paths
PairPaths ==
    {Abs(<<"s", "f">>), Abs(<<"s", "d">>), Abs(<<"s", "l">>), Abs(<<"s", "n">>),
     Abs(<<"s", "d", "n">>), Abs(<<"se", "f">>), Abs(<<"se", "n">>), EmptyString}

PathLists == UNION {[1..k -> PairPaths] : k \in 1..MaxBatch}

Resp(op, req, aux, wdok, r) ==
    [op |-> op, req |-> req, aux |-> aux, wdok |-> wdok,
     ok |-> r.ok, err |-> r.err, val |-> r.val, valid |-> r.valid]

\* a caller invokes PathValidator.ValidatePath
ValidatePathCall ==
    /\ response = None
    /\ \E req \in ReqPaths, wd \in GetwdResults :
         LET v == ValidatePath(req, fs, allowedDirectories, wd) IN
         response' = [op |-> "ValidatePath", req |-> req, wdok |-> wd.ok,
                      ok |-> v.ok, path |-> v.path, err |-> v.err]
    /\ UNCHANGED <<fs, allowedDirectories, returned, nOps, treeCall, moveCalls>>

WriteFileTool ==
    /\ response = None
    /\ nOps < MaxOps
    /\ \E path \in ReqPaths, content \in Contents, wd \in GetwdResults :
         LET r == handleWriteFile(path, content, fs, allowedDirectories, wd) IN
         /\ response' = Resp("write_file", path, content, wd.ok, r)
         /\ fs' = r.fs
    /\ nOps' = nOps + 1
    /\ UNCHANGED <<allowedDirectories, returned, treeCall, moveCalls>>

EditFileTool ==
    /\ response = None
    /\ nOps < MaxOps
    /\ \E path \in ReqPaths, edits \in EditLists, dryRun \in BOOLEAN, wd \in GetwdResults :
         LET r == handleEditFile(path, edits, dryRun, fs, allowedDirectories, wd) IN
         /\ response' = Resp("edit_file", path, <<edits, dryRun>>, wd.ok, r)
         /\ fs' = r.fs
    /\ nOps' = nOps + 1
    /\ UNCHANGED <<allowedDirectories, returned, treeCall, moveCalls>>

CreateDirectoryTool ==
    /\ response = None
    /\ nOps < MaxOps
    /\ \E path \in ReqPaths, wd \in GetwdResults :
         LET r == handleCreateDirectory(path, fs, allowedDirectories, wd) IN
         /\ response' = Resp("create_directory", path, <<>>, wd.ok, r)
         /\ fs' = r.fs
    /\ nOps' = nOps + 1
    /\ UNCHANGED <<allowedDirectories, returned, treeCall, moveCalls>>

MoveFileTool ==
    /\ response = None
    /\ nOps < MaxOps
    /\ \E source \in PairPaths, destination \in PairPaths, xdev \in BOOLEAN,
          wd \in GetwdResults :
         LET r == handleMoveFile(source, destination, xdev, fs, allowedDirectories, wd) IN
         /\ response' = Resp("move_file", source, destination, wd.ok, r)
         /\ fs' = r.fs
    /\ nOps' = nOps + 1
    /\ UNCHANGED <<allowedDirectories, returned, treeCall, moveCalls>>

ReadMultipleFilesTool ==
    /\ response = None
    /\ \E paths \in PathLists, wd \in GetwdResults :
         LET r == handleReadMultipleFiles(paths, fs, allowedDirectories, wd) IN
         response' = Resp("read_multiple_files", paths, <<>>, wd.ok, r)
    /\ UNCHANGED <<fs, allowedDirectories, returned, nOps, treeCall, moveCalls>>

\* the result reaches the caller
Deliver ==
    /\ response # None
    /\ response' = None
    /\ UNCHANGED <<fs, allowedDirectories, returned, nOps, treeCall, moveCalls>>

Next ==
    \/ ValidatePathCall
    \/ WriteFileTool
    \/ EditFileTool
    \/ CreateDirectoryTool
    \/ MoveFileTool
    \/ ReadMultipleFilesTool
    \/ Deliver

Spec == Init /\ [][Next]_vars

----------------------------------------------------------------------------
(* The validator alone: ValidatePath called on each filesystem *)

NextValidate ==
    \/ ValidatePathCall
    \/ Deliver

SpecValidate == Init /\ [][NextValidate]_vars

----------------------------------------------------------------------------
(* The engine called directly, as a library: Operations' entry points *)

\* the paths a direct caller hands to the engine
EnginePaths == PairPaths

ReadFileCall ==
    /\ response = None
    /\ \E filePath \in EnginePaths :
         response' = EngineResp("ReadFile", <<filePath>>, ReadFile(filePath, fs))
    /\ UNCHANGED <<fs, allowedDirectories, returned, nOps, treeCall, moveCalls>>

ReadMultipleFilesCall ==
    /\ response = None
    /\ \E filePaths \in PathLists :
         response' = EngineResp("ReadMultipleFiles", filePaths,
                                ReadMultipleFiles(filePaths, fs))
    /\ UNCHANGED <<fs, allowedDirectories, returned, nOps, treeCall, moveCalls>>

WriteFileCall ==
    /\ response = None
    /\ nOps < MaxOps
    /\ \E filePath \in EnginePaths, content \in Contents :
         LET r == WriteFile(filePath, content, fs) IN
         /\ response' = EngineResp("WriteFile", <<filePath>>, r)
         /\ fs' = r.fs
    /\ nOps' = nOps + 1
    /\ UNCHANGED <<allowedDirectories, returned, treeCall, moveCalls>>

EditFileCall ==
    /\ response = None
    /\ nOps < MaxOps
    /\ \E filePath \in EnginePaths, edits \in EditLists, dryRun \in BOOLEAN :
         LET r == EditFile(filePath, edits, dryRun, fs) IN
         /\ response' = EngineResp("EditFile", <<filePath>>, r)
         /\ fs' = r.fs
    /\ nOps' = nOps + 1
    /\ UNCHANGED <<allowedDirectories, returned, treeCall, moveCalls>>

CreateDirectoryCall ==
    /\ response = None
    /\ nOps < MaxOps
    /\ \E dirPath \in EnginePaths :
         LET r == CreateDirectory(dirPath, fs) IN
         /\ response' = EngineResp("CreateDirectory", <<dirPath>>, r)
         /\ fs' = r.fs
    /\ nOps' = nOps + 1
    /\ UNCHANGED <<allowedDirectories, returned, treeCall, moveCalls>>

ListDirectoryCall ==
    /\ response = None
    /\ \E dirPath \in EnginePaths :
         response' = EngineResp("ListDirectory", <<dirPath>>, ListDirectory(dirPath, fs))
    /\ UNCHANGED <<fs, allowedDirectories, returned, nOps, treeCall, moveCalls>>

MoveFileCall ==
    /\ response = None
    /\ nOps < MaxOps
    /\ \E sourcePath \in EnginePaths, destPath \in EnginePaths, xdev \in BOOLEAN :
         LET r == MoveFile(sourcePath, destPath, xdev, fs) IN
         /\ response' = EngineResp("MoveFile", <<sourcePath, destPath>>, r)
         /\ fs' = r.fs
    /\ nOps' = nOps + 1
    /\ UNCHANGED <<allowedDirectories, returned, treeCall, moveCalls>>

GetFileInfoCall ==
    /\ response = None
    /\ \E filePath \in EnginePaths :
         response' = EngineResp("GetFileInfo", <<filePath>>, GetFileInfo(filePath, fs))
    /\ UNCHANGED <<fs, allowedDirectories, returned, nOps, treeCall, moveCalls>>

NextEngine ==
    \/ ReadFileCall
    \/ ReadMultipleFilesCall
    \/ WriteFileCall
    \/ EditFileCall
    \/ CreateDirectoryCall
    \/ ListDirectoryCall
    \/ MoveFileCall
    \/ GetFileInfoCall
    \/ Deliver

SpecEngine == Init /\ [][NextEngine]_vars

----------------------------------------------------------------------------
(* The containment check called on its own *)

\* cleaned paths, absolute and relative
ContainPaths ==
    {Clean([abs |-> a, segs |-> sg]) :
        a \in BOOLEAN, sg \in SeqsUpTo(Names \cup {".."}, MaxReqLen)}

\* cleaned directories, absolute and relative
ContainDirs ==
    {Abs(<<"s">>), Abs(<<"se">>), Abs(<<"s", "d">>), Abs(<<>>),
     Relp(<<"s">>), Relp(<<"s", "d">>)}

IsPathUnderDirectoryCall ==
    /\ response = None
    /\ \E path \in ContainPaths, dir \in ContainDirs :
         response' = [op |-> "isPathUnderDirectory", path |-> path, dir |-> dir,
                      under |-> isPathUnderDirectory(path, dir)]
    /\ UNCHANGED <<fs, allowedDirectories, returned, nOps, treeCall, moveCalls>>

NextContain ==
    \/ IsPathUnderDirectoryCall
    \/ Deliver

SpecContain == Init /\ [][NextContain]_vars

----------------------------------------------------------------------------
(* The allowed-directory list and the slices handed to callers *)

\* what a caller stores into an element of a slice it holds
OverwriteValues == {Abs(<<"se">>), Abs(<<>>), Relp(<<"changed">>)}

\* the elements a slice shows: a slice that shares the validator's array
\* shows the array
SliceElems(slice) == IF slice.shares THEN allowedDirectories ELSE slice.elems

\* a caller invokes GetAllowedDirectories and keeps the slice in variable k
GetAllowedDirectoriesCall ==
    /\ response = None
    /\ \E k \in 1..MaxSlices :
         LET dirs == GetAllowedDirectories(allowedDirectories) IN
         /\ returned' = [returned EXCEPT ![k] = dirs]
         /\ response' = [op |-> "GetAllowedDirectories", val |-> dirs.elems]
    /\ UNCHANGED <<fs, allowedDirectories, nOps, treeCall, moveCalls>>

\* a caller stores into element i of the slice in its variable k
CallerOverwrite ==
    /\ response = None
    /\ \E k \in 1..MaxSlices, v \in OverwriteValues :
         \E i \in 1..Len(SliceElems(returned[k])) :
            IF returned[k].shares
            THEN /\ allowedDirectories' = [allowedDirectories EXCEPT ![i] = v]
                 /\ UNCHANGED returned
            ELSE /\ returned' = [returned EXCEPT ![k].elems[i] = v]
                 /\ UNCHANGED allowedDirectories
    /\ UNCHANGED <<fs, response, nOps, treeCall, moveCalls>>

InitAllow ==
    /\ fs = InitialFS(<<"se", "f">>)
    /\ allowedDirectories = NewPathValidator(ConfiguredDirs)
    /\ returned = [k \in 1..MaxSlices |-> NoSlice]
    /\ response = None
    /\ nOps = 0
    /\ treeCall = Idle
    /\ moveCalls = NoMoves

NextAllow ==
    \/ GetAllowedDirectoriesCall
    \/ CallerOverwrite
    \/ ValidatePathCall
    \/ Deliver

SpecAllow == InitAllow /\ [][NextAllow]_vars

----------------------------------------------------------------------------
(* DirectoryTree called on directory chains and on symlinks to ancestors *)

\* how far past the depth ceiling the deepest chain goes
ExtraDepth == 2

\* the segments d/d/.../d, k of them
Nested(k) == [i \in 1..k |-> "d"]

\* the chain of k nested directories beneath /s
ChainDirs(k) == [p \in {<<"s">> \o Nested(i) : i \in 1..k} |-> DirNode("0755")]

ChainDepths == {1, 2, maxTreeDepth, maxTreeDepth + 1, maxTreeDepth + ExtraDepth}

NoTreeLink == [at |-> <<>>, target |-> <<>>]

\* the symlink of the fixture: back to the root of the tree, to its own
\* parent, to an ancestor of the root, or out of the allowed directory
TreeLinks ==
    {NoTreeLink,
     [at |-> <<"s", "l">>, target |-> <<"s">>],
     [at |-> <<"s", "d", "l">>, target |-> <<"s">>],
     [at |-> <<"s", "d", "l">>, target |-> <<"s", "d">>],
     [at |-> <<"s", "d", "l">>, target |-> <<>>],
     [at |-> <<"s", "d", "l">>, target |-> <<"se">>]}

TreeFS(k, link) ==
    LET plain == InitialFS(NoLink) @@ ChainDirs(k)
                 @@ (<<"s", "d", "f">> :> FileNode(<<"a">>, "0644"))
    IN  IF link = NoTreeLink THEN plain ELSE plain @@ (link.at :> LinkNode(link.target))

TreeRoots ==
    {Abs(<<"s">>), Abs(<<"s", "d">>), Abs(<<"s", "l">>), Abs(<<"s", "d", "l">>),
     Abs(<<"s", "f">>), Abs(<<"s", "n">>), Abs(<<"se">>), Abs(<<>>), EmptyString}

InitTree ==
    /\ \E k \in ChainDepths, link \in TreeLinks : fs = TreeFS(k, link)
    /\ allowedDirectories = NewPathValidator(ConfiguredDirs)
    /\ returned = [k \in 1..MaxSlices |-> NoSlice]
    /\ response = None
    /\ nOps = 0
    /\ treeCall = Idle
    /\ moveCalls = NoMoves

\* a caller invokes Operations.DirectoryTree: validation and the start of
\* the walk
DirectoryTreeCall ==
    /\ response = None
    /\ ~treeCall.active
    /\ \E dirPath \in TreeRoots :
         LET n == DirectoryTree(dirPath, fs, allowedDirectories) IN
         /\ treeCall' = n.treeCall
         /\ response' = n.response
    /\ UNCHANGED <<fs, allowedDirectories, returned, nOps, moveCalls>>

\* the running activation of buildTree starts
buildTreeEnter ==
    /\ treeCall.active
    /\ Top(treeCall).pc = "enter"
    /\ LET n == buildTreeHead(treeCall, fs) IN
         /\ treeCall' = n.treeCall
         /\ response' = n.response
    /\ UNCHANGED <<fs, allowedDirectories, returned, nOps, moveCalls>>

\* the running activation of buildTree handles its next entry, or returns
buildTreeEntry ==
    /\ treeCall.active
    /\ Top(treeCall).pc = "loop"
    /\ LET n == buildTreeLoop(treeCall, fs, allowedDirectories) IN
         /\ treeCall' = n.treeCall
         /\ response' = n.response
    /\ UNCHANGED <<fs, allowedDirectories, returned, nOps, moveCalls>>

\* the steps of a DirectoryTree call in progress
buildTree == buildTreeEnter \/ buildTreeEntry

NextTree ==
    \/ DirectoryTreeCall
    \/ buildTreeEnter
    \/ buildTreeEntry
    \/ Deliver

SpecTree == InitTree /\ [][NextTree]_vars

----------------------------------------------------------------------------
(* EditFile called again and again on one text file *)

\* EditFile calls in one run
MaxEdits == 2

\* edits in one call
MaxEditList == 2

\* what /s/f holds at first: one line, two lines with an indented first
\* line, two lines with a CR LF line ending
EditContents == {<<"a">>, <<SP, "a", LF, "b">>, <<"a", CR, LF, "a">>}

\* an edit that matches exactly, one that matches a line up to its
\* surrounding blanks only, one that matches nothing; with a replacement
\* and as a deletion
EditChoices ==
    {[oldText |-> o, newText |-> n] : o \in {<<"a">>, <<"a", SP>>, <<"q">>},
                                      n \in {<<"c">>, <<>>}}

EditInputs == UNION {[1..k -> EditChoices] : k \in 0..MaxEditList}

EditPaths == {Abs(<<"s", "f">>), Abs(<<"s", "n">>)}

InitEdit ==
    /\ \E content \in EditContents :
          fs = [InitialFS(NoLink) EXCEPT ![<<"s", "f">>].data = content]
    /\ allowedDirectories = NewPathValidator(ConfiguredDirs)
    /\ returned = [k \in 1..MaxSlices |-> NoSlice]
    /\ response = None
    /\ nOps = 0
    /\ treeCall = Idle
    /\ moveCalls = NoMoves

\* a caller invokes Operations.EditFile
EditFileOnText ==
    /\ response = None
    /\ nOps < MaxEdits
    /\ \E filePath \in EditPaths, edits \in EditInputs, dryRun \in BOOLEAN :
         LET r == EditFile(filePath, edits, dryRun, fs) IN
         /\ response' = EngineResp("EditFile", <<filePath, edits, dryRun>>, r)
         /\ fs' = r.fs
    /\ nOps' = nOps + 1
    /\ UNCHANGED <<allowedDirectories, returned, treeCall, moveCalls>>

NextEdit ==
    \/ EditFileOnText
    \/ Deliver

SpecEdit == InitEdit /\ [][NextEdit]_vars

----------------------------------------------------------------------------
(* ReadFile and WriteFile at the size ceilings *)

\* texts below, at and above the ceiling
SizedContents == {<<>>, <<"b">>, <<Block>>, <<Block, "b">>, <<Block, Block>>}

InitSized ==
    /\ \E content \in SizedContents :
          fs = [InitialFS(<<"s", "f">>) EXCEPT ![<<"s", "f">>].data = content]
    /\ allowedDirectories = NewPathValidator(ConfiguredDirs)
    /\ returned = [k \in 1..MaxSlices |-> NoSlice]
    /\ response = None
    /\ nOps = 0
    /\ treeCall = Idle
    /\ moveCalls = NoMoves

\* a caller invokes Operations.WriteFile with a text of some size
WriteFileSized ==
    /\ response = None
    /\ nOps < MaxOps
    /\ \E filePath \in EnginePaths, content \in SizedContents :
         LET r == WriteFile(filePath, content, fs) IN
         /\ response' = EngineResp("WriteFile", <<filePath, content>>, r)
         /\ fs' = r.fs
    /\ nOps' = nOps + 1
    /\ UNCHANGED <<allowedDirectories, returned, treeCall, moveCalls>>

NextSized ==
    \/ ReadFileCall
    \/ WriteFileSized
    \/ Deliver

SpecSized == InitSized /\ [][NextSized]_vars

----------------------------------------------------------------------------
(* Moves: MoveFile and the move_file tool on a directory that holds a      *)
(* subtree, with and without symlinks                                      *)

\* where /s/l points in the filesystems moves run on
MoveLinks == {NoLink, <<"s", "n">>, <<"s", "d">>}

\* where /s/d/l points in the filesystems moves run on
InnerLinks == {NoLink, <<"se", "f">>, <<"s", "d", "d">>}

\* /s/d holds a file, a directory and, for inner # NoLink, the symlink l
MoveFS(t, inner) ==
    LET base == InitialFS(t)
                @@ (<<"s", "d", "f">> :> FileNode(<<"y">>, "0600"))
                @@ (<<"s", "d", "d">> :> DirNode("0700"))
    IN  IF inner = NoLink THEN base
        ELSE base @@ (<<"s", "d", "l">> :> LinkNode(inner))

InitMove ==
    /\ \E t \in MoveLinks, inner \in InnerLinks : fs = MoveFS(t, inner)
    /\ allowedDirectories = NewPathValidator(ConfiguredDirs)
    /\ returned = [k \in 1..MaxSlices |-> NoSlice]
    /\ response = None
    /\ nOps = 0
    /\ treeCall = Idle
    /\ moveCalls = NoMoves

\* a caller invokes Operations.MoveFile; xdev: the rename crosses devices
MoveFileOnTree ==
    /\ response = None
    /\ nOps < MaxOps
    /\ \E sourcePath \in EnginePaths, destPath \in EnginePaths, xdev \in BOOLEAN :
         LET r == MoveFile(sourcePath, destPath, xdev, fs) IN
         /\ response' = EngineResp("MoveFile", <<sourcePath, destPath, xdev>>, r)
         /\ fs' = r.fs
    /\ nOps' = nOps + 1
    /\ UNCHANGED <<allowedDirectories, returned, treeCall, moveCalls>>

NextMove ==
    \/ MoveFileOnTree
    \/ MoveFileTool
    \/ Deliver

SpecMove == InitMove /\ [][NextMove]_vars

----------------------------------------------------------------------------
(* Concurrent callers: the steps of two MoveFile calls and a WriteFile call *)
(* interleave; each system call is one step                                *)

RaceSources == {Abs(<<"s", "f">>), Abs(<<"s", "d">>)}
RaceDests == {Abs(<<"s", "n">>), Abs(<<"s", "f">>)}

InitRace ==
    /\ \E t \in {NoLink, <<"s", "n">>} : fs = InitialFS(t)
    /\ allowedDirectories = NewPathValidator(ConfiguredDirs)
    /\ returned = [k \in 1..MaxSlices |-> NoSlice]
    /\ response = None
    /\ nOps = 0
    /\ treeCall = Idle
    /\ moveCalls = NoMoves

\* a caller enters MoveFile and runs it up to the test of the destination
MoveFileEnters ==
    /\ \E c \in Callers, sourcePath \in RaceSources, destPath \in RaceDests,
          xdev \in BOOLEAN :
         /\ moveCalls[c] = NotCalled
         /\ LET chk == moveCheck(sourcePath, destPath, fs) IN
            moveCalls' = [moveCalls EXCEPT ![c] =
                            IF chk.ok THEN Checked(sourcePath, destPath, xdev)
                            ELSE Returned(sourcePath, destPath, xdev, chk)]
    /\ UNCHANGED <<fs, allowedDirectories, returned, response, nOps, treeCall>>

\* a caller's MoveFile goes on from the rename to its return
MoveFileRenames ==
    /\ \E c \in Callers :
         /\ moveCalls[c].pc = "checked"
         /\ LET m == moveCalls[c]
                r == moveTransfer(m.sourcePath, m.destPath, m.xdev, fs)
            IN  /\ fs' = r.fs
                /\ moveCalls' = [moveCalls EXCEPT ![c] =
                                   Returned(m.sourcePath, m.destPath, m.xdev, r)]
    /\ UNCHANGED <<allowedDirectories, returned, response, nOps, treeCall>>

\* another caller invokes Operations.WriteFile on a destination
WriteFileRacing ==
    /\ response = None
    /\ nOps < MaxOps
    /\ \E filePath \in RaceDests, content \in Contents :
         LET r == WriteFile(filePath, content, fs) IN
         /\ response' = EngineResp("WriteFile", <<filePath, content>>, r)
         /\ fs' = r.fs
    /\ nOps' = nOps + 1
    /\ UNCHANGED <<allowedDirectories, returned, treeCall, moveCalls>>

NextRace ==
    \/ MoveFileEnters
    \/ MoveFileRenames
    \/ WriteFileRacing
    \/ Deliver

SpecRace == InitRace /\ [][NextRace]_vars

----------------------------------------------------------------------------
(* ReadMultipleFiles called on lists that mix files, directories, symlinks, *)
(* missing entries and files above the read ceiling                        *)

InitBatch ==
    /\ \E t \in LinkTargets \cup {NoLink}, content \in SizedContents :
          fs = [InitialFS(t) EXCEPT ![<<"s", "f">>].data = content]
    /\ allowedDirectories = NewPathValidator(ConfiguredDirs)
    /\ returned = [k \in 1..MaxSlices |-> NoSlice]
    /\ response = None
    /\ nOps = 0
    /\ treeCall = Idle
    /\ moveCalls = NoMoves

NextBatch ==
    \/ ReadMultipleFilesCall
    \/ Deliver

SpecBatch == InitBatch /\ [][NextBatch]_vars

----------------------------------------------------------------------------
(* SearchFiles called on a tree with nested directories, names in both     *)
(* cases and symlinks that lead inside and outside the allowed directory   *)

\* where /s/l points in the filesystems searches run on
SearchLinks == {NoLink, <<"se">>, <<"se", "f">>, <<"s", "d">>, <<"se", "n">>}

SearchFS(t) ==
    InitialFS(t)
    @@ (<<"s", "F">> :> FileNode(<<"x">>, "0644"))
    @@ (<<"s", "d", "f">> :> FileNode(<<"x">>, "0644"))
    @@ (<<"s", "n">> :> DirNode("0755"))
    @@ (<<"s", "n", "f">> :> FileNode(<<"x">>, "0644"))
    @@ (<<"s", "n", "d">> :> DirNode("0755"))
    @@ (<<"s", "n", "d", "f">> :> FileNode(<<"x">>, "0644"))

SearchRoots ==
    {Abs(<<"s">>), Abs(<<"s", "n">>), Abs(<<"s", "d">>), Abs(<<"s", "l">>),
     Abs(<<"s", "se">>), Abs(<<"se">>), Abs(<<>>), EmptyString}

SearchPatterns == {<<"f">>, <<"F">>, <<"d">>, <<"h">>, <<"l">>, <<>>}

\* lists of exclude patterns: none, bare names, a bare path, a wildcard
ExcludeLists ==
    {<<>>, <<<<"d">>>>, <<<<"n">>>>, <<<<"f">>>>, <<<<"l">>>>, <<<<"n", "d">>>>,
     <<<<"*">>>>, <<<<"**", "f">>>>, <<<<"d">>, <<"l">>>>}

InitSearch ==
    /\ \E t \in SearchLinks : fs = SearchFS(t)
    /\ allowedDirectories = NewPathValidator(ConfiguredDirs)
    /\ returned = [k \in 1..MaxSlices |-> NoSlice]
    /\ response = None
    /\ nOps = 0
    /\ treeCall = Idle
    /\ moveCalls = NoMoves

\* a caller invokes Operations.SearchFiles
SearchFilesCall ==
    /\ response = None
    /\ \E rootPath \in SearchRoots, pattern \in SearchPatterns,
          excludePatterns \in ExcludeLists, wd \in GetwdResults :
         response' = EngineResp("SearchFiles", <<rootPath, pattern, excludePatterns>>,
                                SearchFiles(rootPath, pattern, excludePatterns, fs,
                                            allowedDirectories, wd))
    /\ UNCHANGED <<fs, allowedDirectories, returned, nOps, treeCall, moveCalls>>

NextSearch ==
    \/ SearchFilesCall
    \/ Deliver

SpecSearch == InitSearch /\ [][NextSearch]_vars

----------------------------------------------------------------------------
(* The two recursive walks, SearchFiles and DirectoryTree, on the same tree *)

NextWalk ==
    \/ SearchFilesCall
    \/ DirectoryTreeCall
    \/ buildTreeEnter
    \/ buildTreeEntry
    \/ Deliver

SpecWalk == InitSearch /\ [][NextWalk]_vars

----------------------------------------------------------------------------
(* applyEdits on its own: texts with repeated words, indented lines and    *)
(* both line endings, edited by short lists of edits                       *)

\* edits in one list
MaxApplyList == 2

\* a word twice on one line; an indented line before a plain one; a CR LF
\* line ending; two CRs before an LF; four lines of which the second and
\* the fourth differ in their indentation only; nothing
ApplyContents ==
    {<<"a", SP, "a">>,
     <<SP, "a", LF, "b">>,
     <<"a", CR, LF, "a">>,
     <<"a", CR, CR, LF>>,
     <<"b", LF, TAB, "a", LF, "b", LF, SP, "a">>,
     <<>>}

\* oldText: a word; the word with a trailing blank; a word no text holds;
\* a CR LF line ending; two lines of which the first has a trailing blank
ApplyOlds == {<<"a">>, <<"a", SP>>, <<"q">>, <<CR, LF>>, <<"a", SP, LF, "b">>}

\* newText: a word; nothing; two lines with a CR LF ending; a word and a
\* CR; two indented lines
ApplyNews == {<<"c">>, <<>>, <<"c", CR, LF, "d">>, <<"c", CR>>, <<SP, "c", LF, SP, "d">>}

ApplyChoices == {[oldText |-> o, newText |-> n] : o \in ApplyOlds, n \in ApplyNews}

ApplyInputs == UNION {[1..k -> ApplyChoices] : k \in 0..MaxApplyList}

InitApply ==
    /\ fs = InitialFS(NoLink)
    /\ allowedDirectories = NewPathValidator(ConfiguredDirs)
    /\ returned = [k \in 1..MaxSlices |-> NoSlice]
    /\ response = None
    /\ nOps = 0
    /\ treeCall = Idle
    /\ moveCalls = NoMoves

\* EditFile hands a file's content and the edits to applyEdits
applyEditsCall ==
    /\ response = None
    /\ \E content \in ApplyContents, edits \in ApplyInputs :
         LET r == applyEdits(content, edits) IN
         response' = [op |-> "applyEdits", args |-> <<content, edits>>, ok |-> r.ok,
                      err |-> IF r.ok THEN "nil" ELSE editError(r.edit),
                      val |-> r.text]
    /\ UNCHANGED <<fs, allowedDirectories, returned, nOps, treeCall, moveCalls>>

NextApply ==
    \/ applyEditsCall
    \/ Deliver

SpecApply == InitApply /\ [][NextApply]_vars

----------------------------------------------------------------------------
(* EditFile on the same texts and edits: what reaches the file *)

InitRewrite ==
    /\ \E content \in ApplyContents :
          fs = [InitialFS(NoLink) EXCEPT ![<<"s", "f">>].data = content]
    /\ allowedDirectories = NewPathValidator(ConfiguredDirs)
    /\ returned = [k \in 1..MaxSlices |-> NoSlice]
    /\ response = None
    /\ nOps = 0
    /\ treeCall = Idle
    /\ moveCalls = NoMoves

\* a caller invokes Operations.EditFile, once
EditFileOnLines ==
    /\ response = None
    /\ nOps = 0
    /\ \E filePath \in EditPaths, edits \in ApplyInputs, dryRun \in BOOLEAN :
         LET r == EditFile(filePath, edits, dryRun, fs) IN
         /\ response' = EngineResp("EditFile", <<filePath, edits, dryRun>>, r)
         /\ fs' = r.fs
    /\ nOps' = nOps + 1
    /\ UNCHANGED <<allowedDirectories, returned, treeCall, moveCalls>>

NextRewrite ==
    \/ EditFileOnLines
    \/ Deliver

SpecRewrite == InitRewrite /\ [][NextRewrite]_vars

----------------------------------------------------------------------------
(* write_file called again and again, with and without content *)

\* write_file calls in one run
MaxWrites == 2

\* an existing file, a missing one, the symlink, a file outside, a relative
\* path, no path
WritePaths ==
    {Abs(<<"s", "f">>), Abs(<<"s", "n">>), Abs(<<"s", "l">>), Abs(<<"se", "f">>),
     Relp(<<"n">>), EmptyString}

\* a client calls the write_file tool
WriteFileToolAgain ==
    /\ response = None
    /\ nOps < MaxWrites
    /\ \E path \in WritePaths, content \in Contents, wd \in GetwdResults :
         LET r == handleWriteFile(path, content, fs, allowedDirectories, wd) IN
         /\ response' = Resp("write_file", path, content, wd.ok, r)
         /\ fs' = r.fs
    /\ nOps' = nOps + 1
    /\ UNCHANGED <<allowedDirectories, returned, treeCall, moveCalls>>

NextWrite ==
    \/ WriteFileToolAgain
    \/ Deliver

SpecWrite == Init /\ [][NextWrite]_vars

----------------------------------------------------------------------------
(* Vocabulary of the properties, stated on segments and real locations *)

\* the allowed directories as configured
ConfiguredAllowed == {Clean(ConfiguredDirs[i]).segs : i \in 1..Len(ConfiguredDirs)}

InsideAllowed(p) == \E d \in ConfiguredAllowed : Under(p, d)

\* the cleaned absolute path a request names (working directory available)
ReqAbs(req) ==
    LET e == ExpandHomePath(req) IN
    IF e.abs THEN Clean(e) ELSE Join(WorkDir, e)

\* the request reached the containment checks
Resolvable(r) == r.req # EmptyString /\ (ExpandHomePath(r.req).abs \/ r.wdok)

\* the real location a path leads to: every symlink followed, the final
\* component possibly not existing yet
RealLocation(p, F) == Walk(<<>>, p.segs, MaxLinks, F, TRUE)

IsValidation == response.op = "ValidatePath"

\* what lies outside the allowed directories is as it was at the start
OutsideUntouched ==
    \A x \in DOMAIN fs \cup DOMAIN InitialFS(NoLink) :
        ~InsideAllowed(x) =>
            /\ x \in DOMAIN fs
            /\ x \in DOMAIN InitialFS(NoLink)
            /\ fs[x] = InitialFS(NoLink)[x]

\* the outcome of os.Getwd that a recorded call saw
WdOf(r) == CHOOSE wd \in GetwdResults : wd.ok = r.wdok

----------------------------------------------------------------------------
\* C1: whenever ValidatePath succeeds, the returned path is absolute and is
\* equal to, or a separator-bounded descendant of, an allowed directory.
C1_ReturnedInsideAllowed ==
    (IsValidation /\ response.ok)
        => (response.path.abs /\ InsideAllowed(response.path.segs))

\* C1 witness: a request with a ".." segment that names a symlink validated
\* successfully and came back as the symlink's target.
C1_Witness ==
    /\ IsValidation /\ response.ok
    /\ \E i \in 1..Len(response.req.segs) : response.req.segs[i] = ".."
    /\ ReqAbs(response.req).segs \in DOMAIN fs
    /\ fs[ReqAbs(response.req).segs].kind = "link"
    /\ response.path # ReqAbs(response.req)

\* C2: after any sequence of write_file, edit_file, create_directory and
\* move_file tool calls, every entry created, modified or removed lies at a
\* real location inside an allowed directory: nothing outside has changed.
C2_ToolsTouchOnlyInside == OutsideUntouched

\* C3: a path whose real location is outside every allowed directory is
\* rejected by ValidatePath.
C3_OutsideRejected ==
    (IsValidation /\ Resolvable(response)
        /\ RealLocation(ReqAbs(response.req), fs).ok
        /\ ~InsideAllowed(RealLocation(ReqAbs(response.req), fs).path))
        => ~response.ok

\* what ValidatePath answered for path i of a recorded read_multiple_files call
BatchValidation(r, i) == ValidatePath(r.req[i], fs, allowedDirectories, WdOf(r))

\* C4: in a read_multiple_files call that mixes valid paths with rejected
\* ones, a path that fails validation is not read: every segment of the
\* response is for a path that passed validation, so that no segment names
\* a rejected path or carries the content of the file it names.
C4_RejectedNeverRead ==
    (response.op = "read_multiple_files"
        /\ \E i \in 1..Len(response.req) :
               response.req[i] # EmptyString /\ BatchValidation(response, i).ok)
        => \A j \in 1..Len(response.val) :
               \E i \in 1..Len(response.req) :
                   /\ response.req[i] # EmptyString
                   /\ BatchValidation(response, i).ok
                   /\ response.val[j].path = BatchValidation(response, i).path

\* C5: an engine entry point called directly with a path outside every
\* allowed directory returns an error and leaves the filesystem alone.
C5_EngineValidatesFirst ==
    (response.op \in {"ReadFile", "ReadMultipleFiles", "WriteFile", "EditFile",
                      "CreateDirectory", "ListDirectory", "MoveFile", "GetFileInfo"}
        /\ \E i \in 1..Len(response.args) :
               /\ response.args[i] # EmptyString
               /\ ~InsideAllowed(response.args[i].segs))
        => (~response.ok /\ OutsideUntouched)

\* the segments of a cleaned path, "." being the empty path
CleanedSegs(p) == IF p.segs = <<".">> THEN <<>> ELSE p.segs

\* C6: isPathUnderDirectory is true exactly when the path equals the
\* directory or lies beneath it at a separator boundary, whatever the names
\* of the entries on the way.
C6_ContainmentExact ==
    response.op = "isPathUnderDirectory" =>
        (response.under <=>
            (/\ response.path.abs = response.dir.abs
             /\ Under(CleanedSegs(response.path), CleanedSegs(response.dir))))

\* C7: for an existing entry under the allowed directory, named by its
\* absolute path, whose real path is inside the allowed directory,
\* ValidatePath succeeds and returns the real path.
C7_ExistingEntryValidates ==
    (IsValidation /\ response.req.abs /\ Clean(response.req) = response.req
        /\ response.req.segs \in DOMAIN fs
        /\ InsideAllowed(response.req.segs)
        /\ EvalSymlinks(response.req, fs).ok
        /\ InsideAllowed(EvalSymlinks(response.req, fs).path.segs))
        => (response.ok /\ response.path = EvalSymlinks(response.req, fs).path)

\* the final component of the cleaned absolute path does not exist
FinalMissing(a, F) ==
    /\ a.segs # <<>>
    /\ LET rp == EvalSymlinks(Dir(a), F) IN
       rp.ok => Append(rp.path.segs, a.segs[Len(a.segs)]) \notin DOMAIN F

\* C8: when the final component does not exist, the original absolute path
\* is returned if the resolved parent is inside an allowed directory, and
\* the path is rejected if the resolved parent is outside or unresolvable.
C8_NewFileCase ==
    (IsValidation /\ Resolvable(response) /\ FinalMissing(ReqAbs(response.req), fs))
        => LET a == ReqAbs(response.req)
               rp == EvalSymlinks(Dir(a), fs)
           IN  IF rp.ok /\ InsideAllowed(rp.path.segs)
               THEN response.ok /\ response.path = a
               ELSE ~response.ok

\* every ancestor of the path that exists is a plain directory
PlainAncestors(a, F) ==
    \A k \in 1..(Len(a.segs) - 1) :
        SubSeq(a.segs, 1, k) \in DOMAIN F => F[SubSeq(a.segs, 1, k)].kind = "dir"

\* no name on the path begins with two dots
OrdinaryNames(a) ==
    \A k \in 1..Len(a.segs) : ~HasPrefix(Chars(a.segs[k]), <<".", ".">>)

\* C9: create_directory for a path inside an allowed directory, with nothing
\* but plain directories and missing levels on the way, succeeds and leaves
\* the directory in place, however many levels were missing.
C9_CreatesMissingAncestors ==
    (response.op = "create_directory" /\ Resolvable(response)
        /\ InsideAllowed(ReqAbs(response.req).segs)
        /\ Len(ReqAbs(response.req).segs) <= MaxDepth
        /\ OrdinaryNames(ReqAbs(response.req))
        /\ PlainAncestors(ReqAbs(response.req), fs)
        /\ (ReqAbs(response.req).segs \in DOMAIN fs
                => fs[ReqAbs(response.req).segs].kind = "dir"))
        => (response.ok /\ IsDirAt(ReqAbs(response.req).segs, fs))

\* C10: the validator's list stays as constructed, whatever callers do with
\* the slices they were given: GetAllowedDirectories keeps returning it and
\* ValidatePath keeps deciding by it.
C10_AllowedListFixed ==
    /\ allowedDirectories = NewPathValidator(ConfiguredDirs)
    /\ response.op = "GetAllowedDirectories"
           => response.val = NewPathValidator(ConfiguredDirs)
    /\ IsValidation
           => response.ok = ValidatePath(response.req, fs,
                                         NewPathValidator(ConfiguredDirs),
                                         WdOf(response)).ok

\* C10 witness: a caller has overwritten an element of the slice it holds,
\* and a later GetAllowedDirectories call returned the list as constructed.
C10_Witness ==
    /\ \E k \in 1..MaxSlices :
          /\ returned[k] # NoSlice
          /\ returned[k].elems # NewPathValidator(ConfiguredDirs)
    /\ response.op = "GetAllowedDirectories"
    /\ response.val = NewPathValidator(ConfiguredDirs)

----------------------------------------------------------------------------
(* Properties of DirectoryTree *)

IsTree == response.op = "DirectoryTree"

\* the real directory a DirectoryTree call starts from, when the root it was
\* given resolves to a directory inside the allowed directories
TreeRoot(r) == EvalSymlinks(Clean(r.args[1]), fs).path.segs

RootedTree ==
    /\ IsTree
    /\ response.args[1] # EmptyString
    /\ EvalSymlinks(Clean(response.args[1]), fs).ok
    /\ IsDirAt(TreeRoot(response), fs)
    /\ InsideAllowed(TreeRoot(response))

RECURSIVE JsonEntries(_, _)
\* the entries of a returned tree, each with the location it stands for
JsonEntries(arr, at) ==
    UNION {{[path |-> Append(at, arr[i].name), type |-> arr[i].type]}
           \cup (IF "children" \in DOMAIN arr[i]
                 THEN JsonEntries(arr[i].children, Append(at, arr[i].name))
                 ELSE {}) : i \in 1..Len(arr)}

\* the symlinks beneath q that point to q or to an ancestor of themselves
LoopsBeneath(q, F) ==
    {x \in DOMAIN F : /\ Under(x, q) /\ x # q
                      /\ F[x].kind = "link"
                      /\ Under(x, F[x].target)}

\* the directories of the chain beneath q that lie deeper than n levels
DeeperThan(q, n, F) ==
    {x \in DOMAIN F : Under(x, q) /\ F[x].kind = "dir" /\ Len(x) - Len(q) > n}

\* a DirectoryTree call is running on a root with such a symlink beneath it
WalkingLoop ==
    /\ treeCall.active
    /\ LoopsBeneath(treeCall.stack[1].dirPath.segs, fs) # {}

\* what an activation still has to do: an activation about to start counts 1,
\* one in its loop 2 for every entry from the i-th on, and 2 more while it
\* is the running one
Remaining(call, k) ==
    IF call.stack[k].pc = "enter" THEN 1
    ELSE 2 * (Len(call.stack[k].entries.names) - call.stack[k].i + 1)
         + (IF k = Len(call.stack) THEN 2 ELSE 0)

RECURSIVE RemainingUpTo(_, _)
RemainingUpTo(call, k) ==
    IF k = 0 THEN 0 ELSE Remaining(call, k) + RemainingUpTo(call, k - 1)

\* the variant of the walk: the locations not yet in the visited map, each
\* weighing more than a whole directory listing, and what the activations
\* still have to do
Variant ==
    (2 * Cardinality(Names) + 2)
        * Cardinality((DOMAIN fs \cup {<<>>}) \ {v.segs : v \in treeCall.visited})
    + RemainingUpTo(treeCall, Len(treeCall.stack))

\* C11: DirectoryTree on a root whose subtree holds a symlink back to the
\* root or to another ancestor terminates (every step of the walk lowers a
\* variant that never goes below zero) and returns a tree without error, and
\* the cycle is broken: every directory entry of the tree is a directory on
\* disk, the symlink is a leaf and nothing is listed through it.
C11_SymlinkLoopBroken ==
    /\ [][(WalkingLoop /\ treeCall.active') => Variant' < Variant]_vars
    /\ [](WalkingLoop => Variant >= 0)
    /\ []((RootedTree /\ LoopsBeneath(TreeRoot(response), fs) # {})
            => /\ response.ok
               /\ \A e \in JsonEntries(response.val, TreeRoot(response)) :
                     /\ e.path \in DOMAIN fs
                     /\ e.type = "directory" => fs[e.path].kind = "dir")

\* C11 witness: a tree was returned for /s while /s/d/l points back to /s,
\* and the tree lists the symlink.
C11_Witness ==
    /\ RootedTree
    /\ TreeRoot(response) = <<"s">>
    /\ <<"s", "d", "l">> \in LoopsBeneath(<<"s">>, fs)
    /\ response.ok
    /\ \E e \in JsonEntries(response.val, <<"s">>) : e.path = <<"s", "d", "l">>

\* C12: DirectoryTree on a root that holds a chain of directories nested
\* deeper than maxTreeDepth returns an error from the root call.
C12_DeepChainIsError ==
    (RootedTree /\ DeeperThan(TreeRoot(response), maxTreeDepth, fs) # {})
        => ~response.ok

RECURSIVE ChildrenFieldRule(_)
\* files carry no children key, directories carry one, at every level
ChildrenFieldRule(arr) ==
    \A i \in 1..Len(arr) :
        /\ arr[i].type \in {"file", "directory"}
        /\ arr[i].type = "file" => DOMAIN arr[i] = {"name", "type"}
        /\ arr[i].type = "directory"
               => /\ DOMAIN arr[i] = {"name", "type", "children"}
                  /\ ChildrenFieldRule(arr[i].children)

\* C14: in every tree DirectoryTree returns, a file entry carries no
\* children field and a directory entry carries a children list, possibly
\* empty.
C14_ChildrenField == (IsTree /\ response.ok) => ChildrenFieldRule(response.val)

\* C14 witness: a returned tree holds a file entry and a directory entry
\* whose children list is empty.
C14_Witness ==
    /\ IsTree
    /\ response.ok
    /\ \E i, j \in 1..Len(response.val) :
          /\ response.val[i].type = "file"
          /\ response.val[j].type = "directory"
          /\ response.val[j].children = <<>>

----------------------------------------------------------------------------
(* Properties of EditFile *)

\* this step is an EditFile call returning
EditReturns == response.op = "none" /\ response'.op = "EditFile"

\* C15: EditFile with dryRun = true never changes the file (nor anything
\* else on disk), whatever the content and the edits, matching or not.
C15_DryRunLeavesFile ==
    [][(EditReturns /\ response'.args[3]) => fs' = fs]_vars

\* C15 witness: a dry run whose edits matched has returned a diff between
\* two different texts, and the file still holds the first of them.
C15_Witness ==
    /\ response.op = "EditFile"
    /\ response.args[3]
    /\ response.ok
    /\ response.val.modified # response.val.original
    /\ fs[response.args[1].segs].data = response.val.original

\* the text after the first k edits, as applyEdits leaves it
AfterEdits(content, edits, k) == applyEdits(content, SubSeq(edits, 1, k))

\* the k-th edit matches neither exactly nor line by line in the text the
\* edits before it leave
Unmatched(content, edits, k) ==
    /\ AfterEdits(content, edits, k - 1).ok
    /\ ~Contains(AfterEdits(content, edits, k - 1).text,
                 normalizeLineEndings(edits[k].oldText))
    /\ ~applyLineBasedEdit(AfterEdits(content, edits, k - 1).text,
                           normalizeLineEndings(edits[k].oldText),
                           normalizeLineEndings(edits[k].newText)).ok

\* the error texts that name an edit by its position
PositionErrors ==
    <<"could not apply edit 1", "could not apply edit 2", "could not apply edit 3",
      "could not apply edit 4">>

\* C16: when an edit of the list matches neither exactly nor line by line,
\* EditFile fails as a whole with an error naming that edit by its position
\* and the file is unchanged, even when earlier edits of the list matched;
\* so repeating an edit whose oldText an earlier call removed fails and
\* leaves the file as that call wrote it.
C16_UnmatchedEditFailsWhole ==
    [][\A k \in 1..(MaxEditList + 1) :
         (/\ EditReturns
          /\ k <= Len(response'.args[2])
          /\ ReadFile(response'.args[1], fs).ok
          /\ Unmatched(ReadFile(response'.args[1], fs).val, response'.args[2], k))
         => /\ ~response'.ok
            /\ response'.err = PositionErrors[k]
            /\ fs' = fs]_vars

\* C16 witness: /s/f held "a", a first call replaced it by "c", and the
\* same edit sent again has failed as edit 1 with the file still "c".
C16_Witness ==
    /\ nOps = 2
    /\ response.op = "EditFile"
    /\ response.args[1] = Abs(<<"s", "f">>)
    /\ response.args[2] = <<[oldText |-> <<"a">>, newText |-> <<"c">>]>>
    /\ ~response.args[3]
    /\ ~response.ok
    /\ response.err = "could not apply edit 1"
    /\ fs[<<"s", "f">>].data = <<"c">>

----------------------------------------------------------------------------
(* Properties of the size ceilings *)

\* the file a ReadFile call names, when the path leads to one
ReadTarget == OsStat(response.args[1].segs, fs)

ReadsAFile ==
    /\ response.op = "ReadFile"
    /\ response.args[1] # EmptyString
    /\ ReadTarget.ok
    /\ ReadTarget.node.kind = "file"

\* C17: ReadFile on a file of exactly the ceiling (1 MiB), or smaller,
\* succeeds and returns the whole content; on a file one byte larger, or of
\* any larger size, it fails with a size-limit error and returns no content.
C17_ReadCeiling ==
    ReadsAFile =>
        IF ByteLen(ReadTarget.node.data) <= 1048576
        THEN response.ok /\ response.val = ReadTarget.node.data
        ELSE /\ ~response.ok
             /\ response.err = "file exceeds maximum allowed size"
             /\ response.val = <<>>

\* C17 witness: a file of exactly 1 MiB has been read whole.
C17_Witness ==
    /\ ReadsAFile
    /\ ByteLen(ReadTarget.node.data) = 1048576
    /\ response.ok
    /\ response.val = <<Block>>

\* this step is a WriteFile call returning
WriteReturns == response.op = "none" /\ response'.op = "WriteFile"

\* C18: WriteFile with content larger than the write-size ceiling returns an
\* error before any write: the target is not created, truncated or changed;
\* content of exactly the ceiling size is written verbatim.
C18_WriteCeiling ==
    [][(WriteReturns /\ ByteLen(response'.args[2]) > maxWriteSize)
          => (~response'.ok /\ fs' = fs)]_vars

\* a call of Operations.MoveFile returns
MoveReturns == response.op = "none" /\ response'.op = "MoveFile"

\* the move_file tool returns after both paths passed validation
MoveToolReturns ==
    response.op = "none" /\ response'.op = "move_file" /\ Len(response'.valid) = 2

\* the path names a file or a directory
Exists(path, F) == path # EmptyString /\ OsStat(path.segs, F).ok

SameSubtree(qo, F, qn, G) ==
    /\ \A x \in Subtree(qo, F) :
          LET y == qn \o SubSeq(x, Len(qo) + 1, Len(x)) IN
          y \in DOMAIN G /\ G[y] = F[x]
    /\ \A y \in Subtree(qn, G) :
          qo \o SubSeq(y, Len(qn) + 1, Len(y)) \in Subtree(qo, F)

\* C20: after a MoveFile that returns success, by rename or by the copy
\* fallback, the source no longer exists and the destination holds exactly
\* what the source held before: the same content, and for a directory the
\* full subtree with the same modes
C20_MoveCarriesEverything ==
    [][(MoveReturns /\ response'.ok)
         => LET ol == OsLstat(response'.args[1].segs, fs)
                nl == OsLstat(response'.args[2].segs, fs')
            IN  /\ ol.ok
                /\ ~OsLstat(response'.args[1].segs, fs').ok
                /\ nl.ok
                /\ SameSubtree(ol.real, fs, nl.real, fs')]_vars

\* a call of Operations.MoveFile returns the error of a failed copy fallback
CopyFallbackFails ==
    MoveReturns /\ response'.err = "failed to copy during move"

\* every entry at or beneath the real location q of F is in G as it was
Intact(q, F, G) == \A x \in Subtree(q, F) : x \in DOMAIN G /\ G[x] = F[x]

\* C21: when the copy fallback of a cross-device MoveFile fails, MoveFile
\* returns an error and the whole source tree (the entry named and, for a
\* symlink, what it leads to) still exists with its content and modes
\* unchanged
C21_FailedCopyKeepsSource ==
    [][CopyFallbackFails
         => LET ol == OsLstat(response'.args[1].segs, fs)
                st == OsStat(response'.args[1].segs, fs)
            IN  /\ ~response'.ok
                /\ ol.ok => Intact(ol.real, fs, fs')
                /\ st.ok => Intact(st.real, fs, fs')]_vars

\* a cross-device move of a directory with a subtree failed part of the way:
\* the destination holds part of the copy
C21_Witness ==
    /\ response.op = "MoveFile"
    /\ response.err = "failed to copy during move"
    /\ response.args[3]
    /\ \E x \in Subtree(response.args[1].segs, fs) : Len(x) > Len(response.args[1].segs)
    /\ OsStat(response.args[2].segs, fs).ok

\* a call of Operations.SearchFiles has returned
IsSearch == response.op = "SearchFiles"

\* the call named one exclude pattern, a bare name
BareExclude ==
    /\ Len(response.args[3]) = 1
    /\ Len(response.args[3][1]) = 1
    /\ response.args[3][1][1] \in Names

ExcludedName == response.args[3][1][1]

\* the directory a search starts at
SearchRoot == response.args[1].segs

\* the real location x, beneath the root, is at or beneath an entry with the
\* excluded name
BeneathExcluded(x) == \E i \in (Len(SearchRoot) + 1)..Len(x) : x[i] = ExcludedName

\* the real locations the results name
Found == {response.val[i].segs : i \in 1..Len(response.val)}

\* the entries a search of a real directory can reach: beneath the root, and
\* not a symlink that leaves the allowed directories
Reachable ==
    {x \in Subtree(SearchRoot, fs) :
        /\ x # SearchRoot
        /\ OsStat(x, fs).ok => InsideAllowed(OsStat(x, fs).real)}

\* C22: SearchFiles on a directory of the allowed tree with one bare-name
\* exclude returns every entry beneath the root whose name contains the
\* pattern and that is not at or beneath an entry with the excluded name,
\* and returns no entry at or beneath an entry with the excluded name, at
\* any depth
C22_BareExcludeAtAnyDepth ==
    (IsSearch /\ response.ok /\ BareExclude
        /\ InsideAllowed(SearchRoot)
        /\ SearchRoot \in DOMAIN fs /\ fs[SearchRoot].kind = "dir")
        => /\ \A x \in Reachable :
                (Contains(Chars(Last(x)), response.args[2]) /\ ~BeneathExcluded(x))
                    => x \in Found
           /\ \A x \in Found : ~BeneathExcluded(x)

\* a call of Operations.ReadMultipleFiles on a non-empty list has returned
IsBatch == response.op = "ReadMultipleFiles" /\ Len(response.args) > 0

\* the path names a regular file, directly or through symlinks, that is not
\* above the read ceiling
Readable(p, F) ==
    /\ p # EmptyString
    /\ OsStat(p.segs, F).ok
    /\ OsStat(p.segs, F).node.kind = "file"
    /\ ByteLen(OsStat(p.segs, F).node.data) <= 1048576

\* C23: ReadMultipleFiles on a non-empty list never fails as a whole: it
\* returns one segment per input path, in input order; the segment of a
\* readable path holds the file's full content, and the segment of a path
\* that cannot be read holds an error
C23_BatchNeverAborts ==
    IsBatch
        => /\ response.ok
           /\ Len(response.val) = Len(response.args)
           /\ \A i \in 1..Len(response.args) :
                /\ response.val[i].path = response.args[i]
                /\ IF Readable(response.args[i], fs)
                   THEN /\ response.val[i].ok
                        /\ response.val[i].text
                              = OsStat(response.args[i].segs, fs).node.data
                   ELSE /\ ~response.val[i].ok
                        /\ response.val[i].err # "nil"

\* a batch whose first path cannot be read and whose second path was read
C23_Witness ==
    /\ IsBatch
    /\ Len(response.args) = 2
    /\ ~response.val[1].ok
    /\ response.val[2].ok
    /\ response.val[2].text # <<>>

\* C24: when every path of a read_multiple_files request fails boundary
\* validation, the tool returns the error "No valid paths provided" and no
\* file is read: the result holds no segment
C24_AllRejectedIsError ==
    (response.op = "read_multiple_files"
        /\ (\E i \in 1..Len(response.req) : response.req[i] # EmptyString)
        /\ (\A i \in 1..Len(response.req) :
               response.req[i] # EmptyString => ~BatchValidation(response, i).ok))
        => /\ ~response.ok
           /\ response.err = "No valid paths provided"
           /\ response.val = <<>>

\* caller c's MoveFile returns success in this step
MoveSucceeds(c) ==
    moveCalls[c].pc = "checked" /\ moveCalls'[c].pc = "done" /\ moveCalls'[c].ok

\* C25: when calls run concurrently without locks, a MoveFile that succeeds
\* replaces nothing: at the step where it renames, no entry is at the
\* destination, whatever a WriteFile or another MoveFile did in between
C25_ConcurrentMoveNeverOverwrites ==
    [][\A c \in Callers :
          MoveSucceeds(c) => ~OsLstat(moveCalls[c].destPath.segs, fs).ok]_vars

----------------------------------------------------------------------------
(* Properties of applyEdits *)

\* an applyEdits call has returned
IsApply == response.op = "applyEdits"

\* result is text with its first occurrence of old replaced by new: the
\* text before that occurrence and the text after it are as they were
FirstReplaced(text, old, new, result) ==
    \E i \in 1..(Len(text) + 1) :
        /\ i + Len(old) - 1 <= Len(text)
        /\ SubSeq(text, i, i + Len(old) - 1) = old
        /\ \A j \in 1..(i - 1) : SubSeq(text, j, j + Len(old) - 1) # old
        /\ result = SubSeq(text, 1, i - 1) \o new \o SubSeq(text, i + Len(old), Len(text))

\* old occurs somewhere in text
Occurs(text, old) ==
    \E i \in 1..(Len(text) + 1) :
        i + Len(old) - 1 <= Len(text) /\ SubSeq(text, i, i + Len(old) - 1) = old

\* the call's result is what its whole edit list leaves, and it fails as
\* soon as a prefix of the list fails
ResultIsFold ==
    LET content == response.args[1]
        edits == response.args[2]
        last == AfterEdits(content, edits, Len(edits))
    IN /\ response.ok = last.ok
       /\ response.ok => response.val = last.text
       /\ \A k \in 1..Len(edits) :
             ~AfterEdits(content, edits, k).ok => ~response.ok

\* C26: applyEdits is a left-to-right fold over the edit list: each edit
\* works on the content the edits before it produced, and an edit whose
\* oldText occurs verbatim in that content replaces the first occurrence
\* only with newText, all later occurrences and all other text unchanged.
C26_ExactEditReplacesFirstVerbatim ==
    IsApply =>
        /\ ResultIsFold
        /\ \A k \in 1..Len(response.args[2]) :
              LET before == AfterEdits(response.args[1], response.args[2], k - 1)
                  after == AfterEdits(response.args[1], response.args[2], k)
                  e == response.args[2][k]
              IN (before.ok /\ Occurs(before.text, e.oldText))
                 => /\ after.ok
                    /\ FirstReplaced(before.text, e.oldText, e.newText, after.text)

\* C26, amended: the same fold, where the first content is the file's with
\* every CR LF rewritten to LF, and an edit is applied with the CR LF of
\* its oldText and of its newText rewritten to LF: when that oldText
\* occurs in the content, its first occurrence only is replaced by that
\* newText, all later occurrences and all other text unchanged.
C26_ExactEditReplacesFirstNormalized ==
    IsApply =>
        /\ ResultIsFold
        /\ AfterEdits(response.args[1], response.args[2], 0).text
              = normalizeLineEndings(response.args[1])
        /\ \A k \in 1..Len(response.args[2]) :
              LET before == AfterEdits(response.args[1], response.args[2], k - 1)
                  after == AfterEdits(response.args[1], response.args[2], k)
                  e == response.args[2][k]
              IN (before.ok /\ Occurs(before.text, normalizeLineEndings(e.oldText)))
                 => /\ after.ok
                    /\ FirstReplaced(before.text, normalizeLineEndings(e.oldText),
                                     normalizeLineEndings(e.newText), after.text)

\* C26 witness: "a a" edited by a -> "c CR LF d" and then by a -> nothing
\* has become "c LF d" and a blank: the first edit took the first "a" and
\* left the second for the edit after it.
C26_Witness ==
    /\ IsApply
    /\ response.args[1] = <<"a", SP, "a">>
    /\ response.args[2] = <<[oldText |-> <<"a">>, newText |-> <<"c", CR, LF, "d">>],
                            [oldText |-> <<"a">>, newText |-> <<>>]>>
    /\ response.ok
    /\ response.val = <<"c", LF, "d", SP>>

\* the lines of a text, between its LFs
LinesOf(text) == SplitLines(text, <<>>)

\* how many spaces and tabs a line begins with
LeadingBlanks(line) ==
    CHOOSE n \in 0..Len(line) :
        /\ \A j \in 1..n : line[j] \in {SP, TAB}
        /\ n < Len(line) => line[n + 1] \notin {SP, TAB}

\* the content lines from i on are as many as the old lines and equal them
\* after trimming whitespace
RunAt(contentLines, oldLines, i) ==
    /\ i + Len(oldLines) - 1 <= Len(contentLines)
    /\ \A j \in 1..Len(oldLines) :
          TrimSpace(contentLines[i + j - 1]) = TrimSpace(oldLines[j])

\* the lines the claim describes when the run at i is replaced
Spliced(contentLines, oldLines, newLines, i) ==
    SubSeq(contentLines, 1, i - 1)
    \o <<SubSeq(contentLines[i], 1, LeadingBlanks(contentLines[i]))
         \o SubSeq(newLines[1], LeadingBlanks(newLines[1]) + 1, Len(newLines[1]))>>
    \o Tail(newLines)
    \o SubSeq(contentLines, i + Len(oldLines), Len(contentLines))

\* the k-th edit of the call is left to the line-based fallback: the edits
\* before it succeeded and its oldText, as applyEdits hands it on, does
\* not occur in the content they left
FallsBack(k) ==
    /\ k <= Len(response.args[2])
    /\ AfterEdits(response.args[1], response.args[2], k - 1).ok
    /\ ~Occurs(AfterEdits(response.args[1], response.args[2], k - 1).text,
               normalizeLineEndings(response.args[2][k].oldText))

\* C27: when oldText does not occur verbatim, the line-based fallback
\* replaces the first run of content lines that has as many lines as
\* oldText and equals them line by line after trimming whitespace; the run
\* is replaced by the lines of newText, the first of them with the leading
\* indentation of the first matched content line, and every line outside
\* the run is unchanged.
C27_FallbackReplacesFirstRun ==
    IsApply =>
        \A k \in 1..(MaxApplyList + 1) :
            FallsBack(k) =>
                LET contentLines ==
                        LinesOf(AfterEdits(response.args[1], response.args[2], k - 1).text)
                    oldLines == LinesOf(normalizeLineEndings(response.args[2][k].oldText))
                    newLines == LinesOf(normalizeLineEndings(response.args[2][k].newText))
                    after == AfterEdits(response.args[1], response.args[2], k)
                IN \A i \in 1..Len(contentLines) :
                      (/\ RunAt(contentLines, oldLines, i)
                       /\ \A h \in 1..(i - 1) : ~RunAt(contentLines, oldLines, h))
                      => /\ after.ok
                         /\ LinesOf(after.text)
                               = Spliced(contentLines, oldLines, newLines, i)
                         /\ after.text
                               = JoinLines(Spliced(contentLines, oldLines, newLines, i))

\* C27 witness: in four lines of which the second ("TAB a") and the fourth
\* (" a") both match the old line "a ", the second was replaced by the two
\* new lines, the first of them behind the tab, and the fourth is as it was.
C27_Witness ==
    /\ IsApply
    /\ response.args[1] = <<"b", LF, TAB, "a", LF, "b", LF, SP, "a">>
    /\ response.args[2] = <<[oldText |-> <<"a", SP>>, newText |-> <<SP, "c", LF, SP, "d">>]>>
    /\ FallsBack(1)
    /\ response.ok
    /\ response.val = <<"b", LF, TAB, "c", LF, SP, "d", LF, "b", LF, SP, "a">>

----------------------------------------------------------------------------
(* Properties of the recursive walks *)

\* ValidatePath accepts the absolute path with these segments
Passes(x) ==
    ValidatePath(Abs(x), fs, allowedDirectories, [ok |-> TRUE, dir |-> WorkDir]).ok

\* where the path with these segments leads once every symlink is followed
\* is inside an allowed directory
LeadsInside(x) ==
    RealLocation(Abs(x), fs).ok /\ InsideAllowed(RealLocation(Abs(x), fs).path)

\* the entries between the directory q and the entry x beneath it, q
\* included when it is not x itself
Between(q, x) == {SubSeq(x, 1, n) : n \in Len(q)..(Len(x) - 1)}

\* the search excludes the entry x
SearchExcludes(x) ==
    /\ Rel(response.args[1], Abs(x)).ok
    /\ shouldExclude(Rel(response.args[1], Abs(x)).path, response.args[3])

\* the walk of the search comes to the entry x and keeps it: every
\* directory on the way from the root passes validation and is not
\* excluded, and so does x
SearchKeeps(x) ==
    /\ \A a \in Between(SearchRoot, x) :
          fs[a].kind = "dir" /\ Passes(a) /\ ~SearchExcludes(a)
    /\ Passes(x)
    /\ ~SearchExcludes(x)

\* SearchFiles returns nothing that leads outside and everything that
\* passes validation on the way and matches
SearchSkipsWhatFails ==
    (IsSearch /\ response.args[1] # EmptyString /\ response.args[2] # <<>>)
        => /\ response.ok
           /\ \A x \in Found : LeadsInside(x)
           /\ SearchRoot \in DOMAIN fs =>
                 \A x \in Subtree(SearchRoot, fs) :
                     (/\ SearchKeeps(x)
                      /\ Contains(ToLower(Chars(Last(x))), ToLower(response.args[2])))
                     => x \in Found

\* the tree walk comes to the entry x beneath the root q: every directory
\* on the way is a directory itself (not a symlink) and passes validation
TreeReaches(q, x) ==
    \A a \in Between(q, x) : a # q => (fs[a].kind = "dir" /\ Passes(a))

\* DirectoryTree is never inside a directory that leads outside, a
\* subdirectory that fails validation does not fail the call, and every
\* entry the walk reaches is in the tree, a directory when it passes
\* validation
TreeSkipsWhatFails ==
    /\ treeCall.active =>
          \A k \in 2..Len(treeCall.stack) : LeadsInside(treeCall.stack[k].dirPath.segs)
    /\ RootedTree =>
          /\ response.ok
          /\ \A x \in Subtree(TreeRoot(response), fs) :
                (/\ x # TreeRoot(response)
                 /\ Len(x) - Len(TreeRoot(response)) <= maxTreeDepth
                 /\ TreeReaches(TreeRoot(response), x)
                 /\ fs[x].kind = "dir" => Passes(x))
                => \E e \in JsonEntries(response.val, TreeRoot(response)) :
                      /\ e.path = x
                      /\ e.type = (IF fs[x].kind = "dir" THEN "directory" ELSE "file")

\* C28: the recursive walks validate every path they visit again and skip
\* what fails without aborting: SearchFiles never returns, and
\* DirectoryTree never descends into, an entry whose symlink-resolved real
\* path is outside every allowed directory, and the entries that pass
\* validation are still reported.
C28_WalksSkipWhatFailsValidation == SearchSkipsWhatFails /\ TreeSkipsWhatFails

----------------------------------------------------------------------------
(* Properties of EditFile's line endings *)

\* no CR is directly followed by an LF
NoCRLF(text) == \A i \in 1..(Len(text) - 1) : ~(text[i] = CR /\ text[i + 1] = LF)

\* the file an EditFile call names, before and after the call
EditedBefore == fs[response'.args[1].segs].data
EditedAfter == fs'[response'.args[1].segs].data

\* the only edit of the call, with its CR LF rewritten to LF
OnlyOld == normalizeLineEndings(response'.args[2][1].oldText)
OnlyNew == normalizeLineEndings(response'.args[2][1].newText)

\* C29: a successful EditFile that is not a dry run writes content without
\* any CR LF: every CR LF of the original is rewritten to LF, matched by an
\* edit or not, and apart from that the text outside what the edits
\* matched is unchanged (stated for a call with one edit: the content with
\* CR LF rewritten to LF, and either the first occurrence of oldText
\* replaced or the first matching run of lines spliced).
C29_EditWritesNoCRLF ==
    [][(EditReturns /\ ~response'.args[3] /\ response'.ok)
        => /\ NoCRLF(EditedAfter)
           /\ Len(response'.args[2]) = 1 =>
                 IF Occurs(normalizeLineEndings(EditedBefore), OnlyOld)
                 THEN FirstReplaced(normalizeLineEndings(EditedBefore),
                                    OnlyOld, OnlyNew, EditedAfter)
                 ELSE \E i \in 1..Len(EditedBefore) :
                        /\ RunAt(LinesOf(normalizeLineEndings(EditedBefore)),
                                 LinesOf(OnlyOld), i)
                        /\ EditedAfter =
                              JoinLines(Spliced(LinesOf(normalizeLineEndings(EditedBefore)),
                                                LinesOf(OnlyOld), LinesOf(OnlyNew), i))]_vars

----------------------------------------------------------------------------
(* Properties of write_file's content parameter *)

\* this step is a write_file call returning
WriteToolReturns == response.op = "none" /\ response'.op = "write_file"

\* the files that hold nothing
EmptyFiles(F) == {x \in DOMAIN F : F[x].kind = "file" /\ F[x].data = <<>>}

\* C30: a write_file call whose content is the empty string is rejected
\* with a parameter-required error and changes nothing on disk, the target
\* neither created nor truncated; no write_file call, whatever its
\* arguments, leaves a file empty that was not empty before.
C30_EmptyContentRejected ==
    [][WriteToolReturns =>
         /\ response'.aux = <<>> =>
               /\ ~response'.ok
               /\ response'.err = (IF response'.req = EmptyString
                                   THEN "Path parameter is required"
                                   ELSE "Content parameter is required")
               /\ fs' = fs
         /\ EmptyFiles(fs') \subseteq EmptyFiles(fs)]_vars

\* C30 witness: after a write_file that put "b" into /s/f, a second call
\* with empty content for /s/f was rejected and the file still holds "b".
C30_Witness ==
    /\ nOps = 2
    /\ response.op = "write_file"
    /\ response.req = Abs(<<"s", "f">>)
    /\ response.aux = <<>>
    /\ ~response.ok
    /\ response.err = "Content parameter is required"
    /\ fs[<<"s", "f">>].data = <<"b">>

====
